---- MODULE Spec2Model ----
(***************************************************************************)
(* Model of the OCR caching server (crates/ocr-server): the cache-key      *)
(* normalizer, the SQLite-backed cache store, the chapter job registry,    *)
(* the request handlers and the chapter job task.                          *)
(*                                                                         *)
(* Strings are sequences of one-character strings; a cache key is such a   *)
(* sequence.  The database is three tables: ocr_cache (key -> row),        *)
(* chapter_cache (a set of <<chapter_key, cache_key>> pairs) and           *)
(* chapter_pages (chapter_key -> row).                                     *)
(***************************************************************************)
EXTENDS Integers, Sequences, FiniteSets, TLC

(***************************************************************************)
(* Bounds of the model.                                                    *)
(***************************************************************************)
\* the clock (now_unix) runs over 0..MaxNow
MaxNow == 1
\* access_count is followed up to MaxAccess
MaxAccess == 2
\* number of chapter job tasks that can be in flight at once
MaxTasks == 2
MaxCallers == 2
\* number of chapters in the longest batch status request
MaxChapters == 5

(***************************************************************************)
(* String helpers (Rust str methods used by the code).                     *)
(***************************************************************************)
RECURSIVE IndexFrom(_, _, _)
\* first index >= i of s holding a character of set cs, 0 when there is none
IndexFrom(s, cs, i) ==
    IF i > Len(s) THEN 0
    ELSE IF s[i] \in cs THEN i
    ELSE IndexFrom(s, cs, i + 1)

\* s[i..] (empty when i is past the end)
Tail_(s, i) == IF i > Len(s) THEN <<>> ELSE SubSeq(s, i, Len(s))

\* str::starts_with
StartsWith(s, p) == Len(p) <= Len(s) /\ SubSeq(s, 1, Len(p)) = p

RECURSIVE Split(_, _)
\* str::split(ch): the pieces between occurrences of ch (never empty)
Split(s, ch) ==
    LET i == IndexFrom(s, {ch}, 1)
    IN  IF i = 0 THEN <<s>>
        ELSE <<SubSeq(s, 1, i - 1)>> \o Split(Tail_(s, i + 1), ch)

RECURSIVE Join(_, _)
\* [&str]::join(sep)
Join(parts, sep) ==
    IF Len(parts) = 0 THEN <<>>
    ELSE IF Len(parts) = 1 THEN parts[1]
    ELSE parts[1] \o sep \o Join(Tail(parts), sep)

RECURSIVE TrimStartMatches(_, _)
\* str::trim_start_matches(ch)
TrimStartMatches(s, ch) ==
    IF Len(s) > 0 /\ s[1] = ch THEN TrimStartMatches(Tail(s), ch) ELSE s

(***************************************************************************)
(* reqwest::Url::parse, on the URL syntax the model uses:                  *)
(*   scheme ":" ["//" authority] path ["?" query] ["#" fragment]           *)
(* A string with no scheme is a relative URL without a base: an error.     *)
(* The result is [ok, path, hasQuery, query]: whether the URL parsed, and  *)
(* its path() and query().                                                 *)
(***************************************************************************)
Letters == {"a", "b", "c", "d", "e", "g", "h", "i", "j", "l", "m", "n", "o",
            "p", "r", "s", "t", "u", "x", "I", "A", "X"}
Digits == {"0", "1", "2", "3"}
SchemeChars == Letters \cup Digits

SOURCE_ID == <<"s", "o", "u", "r", "c", "e", "I", "d">>
HTTP == <<"h", "t", "t", "p">>
HTTPS == <<"h", "t", "t", "p", "s">>
SpecialSchemes == {HTTP, HTTPS}

\* s before its i-th character (all of s when i = 0)
Before(s, i) == IF i = 0 THEN s ELSE SubSeq(s, 1, i - 1)
\* s after its i-th character (nothing when i = 0)
After(s, i) == IF i = 0 THEN <<>> ELSE Tail_(s, i + 1)

\* is s[1..c-1] a scheme: a letter, then letters and digits
IsScheme(url, c) ==
    c > 1 /\ url[1] \in Letters /\ \A i \in 1..(c - 1) : url[i] \in SchemeChars

\* length of the scheme of url, 0 when url does not start with "scheme:"
SchemeLen(url) ==
    IF IsScheme(url, IndexFrom(url, {":"}, 1))
    THEN IndexFrom(url, {":"}, 1) - 1 ELSE 0

BadUrl == [ok |-> FALSE, path |-> <<>>, hasQuery |-> FALSE, query |-> <<>>]
UrlOk(path, hasQuery, query) ==
    [ok |-> TRUE, path |-> path, hasQuery |-> hasQuery, query |-> query]

\* the path that follows the host in hostPath; a special URL has at least "/"
PathAfterHost(special, hostPath, slash) ==
    IF slash = 0 THEN (IF special THEN <<"/">> ELSE <<>>)
    ELSE Tail_(hostPath, slash)

\* hostPath is the URL after "scheme://", up to the query
ParseHostPath(special, hostPath, hasQuery, query) ==
    IF special /\ Before(hostPath, IndexFrom(hostPath, {"/"}, 1)) = <<>>
    THEN BadUrl  \* a special URL needs a host
    ELSE UrlOk(PathAfterHost(special, hostPath, IndexFrom(hostPath, {"/"}, 1)),
               hasQuery, query)

\* hier is the URL after "scheme:", up to the query
ParseHier(special, hier, hasQuery, query) ==
    IF special
    THEN \* a special scheme skips every slash before the authority
         ParseHostPath(special, TrimStartMatches(hier, "/"), hasQuery, query)
    ELSE IF StartsWith(hier, <<"/", "/">>)
    THEN ParseHostPath(special, Tail_(hier, 3), hasQuery, query)
    ELSE UrlOk(hier, hasQuery, query)

\* rest is the URL after "scheme:", without the fragment
ParseRest(special, rest, q) ==
    ParseHier(special, Before(rest, q), q # 0, After(rest, q))

ParseNoFragment(special, rest) == ParseRest(special, rest, IndexFrom(rest, {"?"}, 1))

ParseScheme(url, n) ==
    IF n = 0 THEN BadUrl
    ELSE ParseNoFragment(SubSeq(url, 1, n) \in SpecialSchemes,
                         Before(Tail_(url, n + 2),
                                IndexFrom(Tail_(url, n + 2), {"#"}, 1)))

ParseUrl(url) == ParseScheme(url, SchemeLen(url))

(***************************************************************************)
(* logic::get_cache_key.  language is a language code (a string) or        *)
(* NoLanguage for None.                                                    *)
(***************************************************************************)
NoLanguage == <<"-">>
LANG == <<"l", "a", "n", "g">>

\* a parameter key that is the whole parameter, value included
ParamKey_whole(part) == part

\* the key of a query parameter: part.split('=').next()
ParamKey(part) == Split(part, "=")[1]

\* a filter that keeps every parameter
KeepParam_all(part) == TRUE

\* the filter of kept_parts: a parameter is kept unless its key is sourceId
KeepParam(part) == ParamKey(part) # SOURCE_ID

RECURSIVE FilterParams(_)
\* Iterator::filter(KeepParam) over the parts, keeping order
FilterParams(parts) ==
    IF Len(parts) = 0 THEN <<>>
    ELSE (IF KeepParam(parts[1]) THEN <<parts[1]>> ELSE <<>>)
         \o FilterParams(Tail(parts))

\* kept_parts: the query split on "&" with every sourceId parameter dropped
KeptParts(query) == FilterParams(Split(query, "&"))

\* if !kept_parts.is_empty() { path.push('?'); path.push_str(&kept_parts.join("&")) }
PushKept(path, kept_parts) ==
    IF kept_parts # <<>> THEN path \o <<"?">> \o Join(kept_parts, <<"&">>)
    ELSE path

\* the value of `raw` for a URL that parsed
PathAndQuery(parsed) ==
    IF parsed.hasQuery /\ parsed.query # <<>>
    THEN PushKept(parsed.path, KeptParts(parsed.query))
    ELSE parsed.path

\* a fallback that gives up the string that did not parse
RawOf_dropped(url, parsed) == IF parsed.ok THEN PathAndQuery(parsed) ELSE <<>>

RawOf(url, parsed) == IF parsed.ok THEN PathAndQuery(parsed) ELSE url

RawKey(url) == RawOf(url, ParseUrl(url))

\* a prefix with no separator when nothing follows it
LangKey_bare(language, trimmed) ==
    IF trimmed = <<>>
    THEN LANG \o <<"/">> \o language
    ELSE LANG \o <<"/">> \o language \o <<"/">> \o trimmed

\* format!("lang/{}/", ..) and format!("lang/{}/{}", .., trimmed)
LangKey(language, trimmed) ==
    IF trimmed = <<>>
    THEN LANG \o <<"/">> \o language \o <<"/">>
    ELSE LANG \o <<"/">> \o language \o <<"/">> \o trimmed

KeyOfRaw(raw, language) ==
    IF language # NoLanguage
    THEN LangKey(language, TrimStartMatches(raw, "/"))
    ELSE raw

get_cache_key(url, language) == KeyOfRaw(RawKey(url), language)

(***************************************************************************)
(* The universe of requests: one language and one chapter of two pages,    *)
(* with the path shape of the page-serving API                             *)
(* (.../manga/<id>/chapter/<idx>).                                         *)
(***************************************************************************)
JA == <<"j", "a">>
Languages == {JA}
\* a second language, for requests that name one per chapter
EN == <<"e", "n">>

HOST == HTTP \o <<":", "/", "/", "h">>
ChA == HOST \o <<"/", "m", "a", "n", "g", "a", "/", "1", "/",
                 "c", "h", "a", "p", "t", "e", "r", "/", "1">>
PA0 == ChA \o <<"/", "0">>
PA1 == ChA \o <<"/", "1">>
\* the same page as PA0, requested with a sourceId parameter
PA0s == PA0 \o <<"?">> \o SOURCE_ID \o <<"=", "2">>

\* a second chapter, and two pages whose names differ in one character, the
\* one of PU being "_"
ChB == HOST \o <<"/", "m", "a", "n", "g", "a", "/", "1", "/",
                 "c", "h", "a", "p", "t", "e", "r", "/", "2">>
PU == HOST \o <<"/", "p", "_", "1">>
PV == HOST \o <<"/", "p", "X", "1">>
\* a page requested with a parameter of its own
PQ == PA1 \o <<"?", "x", "=", "1">>

ChapterUrls == {ChA}
PageUrls == {PA0, PA1, PA0s}

\* get_cache_key on the URLs of the model, computed once
RequestUrls == ChapterUrls \cup PageUrls \cup {ChB, PU, PV, PQ}
RECURSIVE KeysOf(_)
\* the function from each <<url, language>> of a non-empty set to its key
KeysOf(requests) ==
    LET x == CHOOSE y \in requests : TRUE
    IN  IF requests = {x} THEN x :> get_cache_key(x[1], x[2])
        ELSE (x :> get_cache_key(x[1], x[2])) @@ KeysOf(requests \ {x})

KeyTable == KeysOf(RequestUrls \X (Languages \cup {EN, NoLanguage}))
cache_key_of(url, language) == KeyTable[<<url, language>>]

\* a row written by an older version, whose key embeds sourceId
LegacyKey == get_cache_key(PA0, JA) \o <<"?">> \o SOURCE_ID \o <<"=", "1">>

\* the key an older version gave to a page requested with sourceId=1
LegacyKeyOf(url) == cache_key_of(url, JA) \o <<"?">> \o SOURCE_ID \o <<"=", "1">>

Contexts == {"No Context", "Job"}

(***************************************************************************)
(* OCR results.  A result list (Vec<OcrResult>) is a sequence of lines;    *)
(* the data column holds its JSON encoding.                                *)
(***************************************************************************)
D1 == <<"L1">>
D2 == <<"L1", "L2">>
DataValues == {D1, D2}

\* serde_json::to_vec(&entry.data).unwrap_or_default()
to_vec(data) == [json |-> TRUE, lines |-> data]
\* serde_json::from_slice(&data_blob).unwrap_or_default(): a blob that does
\* not decode reads as the empty list
from_slice(blob) == IF blob.json THEN blob.lines ELSE <<>>

CacheEntry(context, data) == [context |-> context, data |-> data]

None == [some |-> FALSE]
Some(v) == [some |-> TRUE, v |-> v]

(***************************************************************************)
(* SQLite's LIKE: "%" matches any run of characters, "_" any one           *)
(* character, and ASCII letters match without regard to case.              *)
(***************************************************************************)
Lower(c) == CASE c = "A" -> "a" [] c = "I" -> "i" [] c = "X" -> "x" [] OTHER -> c

RECURSIVE Like(_, _)
Like(pat, s) ==
    IF pat = <<>> THEN s = <<>>
    ELSE IF pat[1] = "%" THEN Like(Tail(pat), s) \/ (s # <<>> /\ Like(pat, Tail(s)))
    ELSE IF s = <<>> THEN FALSE
    ELSE (pat[1] = "_" \/ Lower(pat[1]) = Lower(s[1])) /\ Like(Tail(pat), Tail(s))

\* format!("{}?sourceId=%", cache_key) and format!("{}&sourceId=%", cache_key)
LikeQ(cache_key) == cache_key \o <<"?">> \o SOURCE_ID \o <<"=", "%">>
LikeAmp(cache_key) == cache_key \o <<"&">> \o SOURCE_ID \o <<"=", "%">>

(***************************************************************************)
(* The cache store (state.rs).  Every operation is a function of the       *)
(* tables it touches and of now_unix(), and returns its result with the    *)
(* tables as it leaves them.                                               *)
(*   oc: ocr_cache      cache_key -> row                                   *)
(*   cc: chapter_cache  set of <<chapter_key, cache_key>>                  *)
(*   cp: chapter_pages  chapter_key -> row                                 *)
(***************************************************************************)
\* SELECT COUNT(*) FROM ocr_cache
cache_len(oc) == Cardinality(DOMAIN oc)

has_cache_entry(oc, cache_key) == cache_key \in DOMAIN oc

has_cache_entry_prefix(oc, prefix) ==
    \E k \in DOMAIN oc : Like(prefix \o <<"%">>, k)

\* INSERT OR IGNORE INTO chapter_cache
\* an insert that starts the chapter's membership afresh
insert_chapter_cache_fresh(cc, chapter_key, cache_key) ==
    {r \in cc : r[1] # chapter_key} \cup {<<chapter_key, cache_key>>}

\* INSERT OR IGNORE INTO chapter_cache (chapter_key, cache_key, created_at);
\* (chapter_key, cache_key) is the primary key of the table
insert_chapter_cache(cc, chapter_key, cache_key) ==
    cc \cup {<<chapter_key, cache_key>>}

count_chapter_cache(cc, chapter_key) ==
    Cardinality({r \in cc : r[1] = chapter_key})

\* UPDATE ocr_cache SET last_accessed_at = ?, access_count = access_count + 1
BumpAccess(oc, cache_key, t) ==
    IF cache_key \in DOMAIN oc
    THEN [oc EXCEPT ![cache_key].last_accessed_at = t,
                    ![cache_key].access_count = @ + 1]
    ELSE oc

\* the row as the SELECTs read it
ReadEntry(oc, cache_key) ==
    CacheEntry(oc[cache_key].context, from_slice(oc[cache_key].data))

\* a get that takes a row whose data does not decode for no row
get_cache_entry_strict(oc, cache_key, t) ==
    IF cache_key \in DOMAIN oc /\ oc[cache_key].data.json
    THEN [entry |-> Some(ReadEntry(oc, cache_key)), oc |-> BumpAccess(oc, cache_key, t)]
    ELSE [entry |-> None, oc |-> oc]

get_cache_entry(oc, cache_key, t) ==
    IF cache_key \in DOMAIN oc
    THEN [entry |-> Some(ReadEntry(oc, cache_key)), oc |-> BumpAccess(oc, cache_key, t)]
    ELSE [entry |-> None, oc |-> oc]

\* the rows the LIKE ... OR LIKE ... query of the sourceId-variant lookup matches
SourceIdVariants(oc, cache_key) ==
    {k \in DOMAIN oc : Like(LikeQ(cache_key), k) \/ Like(LikeAmp(cache_key), k)}

\* LIMIT 1 with no ORDER BY: `first` is the row the query happens to return,
\* any one of SourceIdVariants(oc, cache_key)
get_cache_entry_sourceid_variant(oc, cache_key, first, t) ==
    IF first \in SourceIdVariants(oc, cache_key)
    THEN [row |-> Some([key |-> first, entry |-> ReadEntry(oc, first)]),
          oc |-> BumpAccess(oc, first, t)]
    ELSE [row |-> None, oc |-> oc]

\* the function f with key k set to v (k added when absent)
Upsert(f, k, v) == [x \in DOMAIN f \cup {k} |-> IF x = k THEN v ELSE f[x]]

\* a row that counts no access yet
NewRow_unread(entry, t) ==
    [context |-> entry.context, data |-> to_vec(entry.data),
     created_at |-> t, last_processed_at |-> t, last_accessed_at |-> t,
     access_count |-> 0]

NewRow(entry, t) ==
    [context |-> entry.context, data |-> to_vec(entry.data),
     created_at |-> t, last_processed_at |-> t, last_accessed_at |-> t,
     access_count |-> 1]

\* an INSERT OR REPLACE: the row is written anew
insert_cache_entry_replace(oc, cache_key, entry, t) ==
    Upsert(oc, cache_key, NewRow(entry, t))

\* INSERT ... ON CONFLICT(cache_key) DO UPDATE SET ...
insert_cache_entry(oc, cache_key, entry, t) ==
    IF cache_key \in DOMAIN oc
    THEN [oc EXCEPT ![cache_key].context = entry.context,
                    ![cache_key].data = to_vec(entry.data),
                    ![cache_key].last_processed_at = t,
                    ![cache_key].last_accessed_at = t,
                    ![cache_key].access_count = @ + 1]
    ELSE Upsert(oc, cache_key, NewRow(entry, t))

EmptyTable == [k \in {} |-> 0]

\* DELETE FROM ocr_cache; DELETE FROM chapter_cache; DELETE FROM chapter_pages
\* a clear that leaves the page counts
clear_cache_pages_kept(oc, cc, cp) == [oc |-> EmptyTable, cc |-> {}, cp |-> cp]

clear_cache(oc, cc, cp) == [oc |-> EmptyTable, cc |-> {}, cp |-> EmptyTable]

\* f without the keys of ks
Without(f, ks) == [x \in DOMAIN f \ ks |-> f[x]]

(***************************************************************************)
(* Storage failures.  A store operation gets a connection from the pool,   *)
(* may begin a transaction, executes statements and may commit; each of    *)
(* these returns a Result.  `faults` is the set of the steps that fail in  *)
(* one run of an operation.                                                *)
(***************************************************************************)
POOL == "pool.get"                  \* no connection
TRANSACTION == "transaction"        \* conn.transaction()
SELECT == "select"                  \* prepare / query_map / query_row of a SELECT
OCR_CACHE == "ocr_cache"            \* the statements that write ocr_cache
CHAPTER_CACHE == "chapter_cache"    \* the statements that write chapter_cache
CHAPTER_PAGES == "chapter_pages"    \* the statements that write chapter_pages
METADATA == "metadata"              \* the statement that writes metadata
COMMIT == "commit"                  \* tx.commit()
OPEN == "File::open"                \* the legacy snapshot cannot be opened
REMOVE_FILE == "remove_file"        \* the legacy snapshot cannot be removed

NoFaults == {}

\* the rows of one DELETE FROM ocr_cache WHERE cache_key = ? OR LIKE ? OR LIKE ?
DeleteMatches(oc, cache_key) ==
    {k \in DOMAIN oc : k = cache_key \/ Like(LikeQ(cache_key), k)
                                     \/ Like(LikeAmp(cache_key), k)}

RECURSIVE DeleteMembers(_, _, _)
\* the loop over cache_keys: [oc, rows] after deleting for each key in turn
DeleteMembers(oc, cache_keys, rows) ==
    IF cache_keys = {} THEN [oc |-> oc, rows |-> rows]
    ELSE LET k == CHOOSE x \in cache_keys : TRUE
             gone == DeleteMatches(oc, k)
         IN  DeleteMembers(Without(oc, gone), cache_keys \ {k},
                           rows + Cardinality(gone))

\* the member keys whatever delete_data is
MemberKeys_always(cc, chapter_key, delete_data, faults) ==
    {m[2] : m \in {r \in cc : r[1] = chapter_key}}

\* SELECT cache_key FROM chapter_cache WHERE chapter_key = ?, when delete_data;
\* a query_map that fails leaves cache_keys empty
MemberKeys(cc, chapter_key, delete_data, faults) ==
    IF delete_data /\ SELECT \notin faults
    THEN {m[2] : m \in {r \in cc : r[1] = chapter_key}}
    ELSE {}

\* the three DELETEs inside the transaction, each with .unwrap_or(0): one
\* that fails deletes nothing and counts 0, and the next one runs
DeleteTx(oc, cc, cp, chapter_key, cache_keys, faults) ==
    LET members == IF CHAPTER_CACHE \in faults THEN {}
                   ELSE {m \in cc : m[1] = chapter_key}
        pages == IF CHAPTER_PAGES \in faults THEN {}
                 ELSE {chapter_key} \cap DOMAIN cp
        d == IF OCR_CACHE \in faults THEN [oc |-> oc, rows |-> 0]
             ELSE DeleteMembers(oc, cache_keys, 0)
    IN  [oc |-> d.oc, cc |-> cc \ members, cp |-> Without(cp, pages),
         rows |-> <<Cardinality(members), Cardinality(pages), d.rows>>]

\* if let Err(err) = tx.commit() { return (0, 0, 0) }: the transaction rolls back
DeleteCommit(oc, cc, cp, r, faults) ==
    IF COMMIT \in faults
    THEN [oc |-> oc, cc |-> cc, cp |-> cp, rows |-> <<0, 0, 0>>]
    ELSE r

delete_chapter_ocr(oc, cc, cp, chapter_key, delete_data, faults) ==
    IF POOL \in faults \/ TRANSACTION \in faults
    THEN [oc |-> oc, cc |-> cc, cp |-> cp, rows |-> <<0, 0, 0>>]
    ELSE DeleteCommit(oc, cc, cp,
                      DeleteTx(oc, cc, cp, chapter_key,
                               MemberKeys(cc, chapter_key, delete_data, faults),
                               faults),
                      faults)

\* SELECT cache_key, context, data FROM ocr_cache
export_cache(oc, faults) ==
    IF POOL \in faults \/ SELECT \in faults
    THEN EmptyTable
    ELSE [k \in DOMAIN oc |-> ReadEntry(oc, k)]

\* INSERT OR REPLACE in place of INSERT OR IGNORE: every key is written
ImportRows_replace(oc, data, todo, added, t) ==
    [oc |-> [k \in DOMAIN oc \cup todo |->
                IF k \in todo THEN NewRow(data[k], t) ELSE oc[k]],
     added |-> added + Cardinality(todo)]

RECURSIVE ImportRows(_, _, _, _, _)
\* the loop of import_cache over the keys whose INSERT OR IGNORE runs (an
\* INSERT that fails adds nothing and is not counted)
ImportRows(oc, data, todo, added, t) ==
    IF todo = {} THEN [oc |-> oc, added |-> added]
    ELSE LET k == CHOOSE x \in todo : TRUE
         IN  IF k \in DOMAIN oc
             THEN ImportRows(oc, data, todo \ {k}, added, t)
             ELSE ImportRows(Upsert(oc, k, NewRow(data[k], t)), data,
                             todo \ {k}, added + 1, t)

\* let _ = tx.commit(); added: a commit that fails leaves the table as it
\* was (the transaction rolls back when dropped) and `added` as counted
ImportCommit(oc, r, faults) ==
    IF COMMIT \in faults THEN [oc |-> oc, added |-> r.added] ELSE r

import_cache(oc, data, faults, t) ==
    IF POOL \in faults \/ TRANSACTION \in faults
    THEN [oc |-> oc, added |-> 0]
    ELSE ImportCommit(oc, ImportRows(oc, data,
                                     IF OCR_CACHE \in faults THEN {} ELSE DOMAIN data,
                                     0, t),
                      faults)

(***************************************************************************)
(* migrate_legacy_cache (state.rs), run by AppState::new on every start.   *)
(* `faults` is the set of its steps that fail in this run.                 *)
(***************************************************************************)
LEGACY_JSON_MIGRATED == "legacy_json_migrated"

\* struct PersistentState; json is whether serde_json::from_reader decodes it
PersistentState(cache, chapter_pages_map) ==
    [json |-> TRUE, cache |-> cache, chapter_pages_map |-> chapter_pages_map]

RECURSIVE MigrateRows(_, _, _, _)
\* INSERT OR IGNORE INTO ocr_cache (..., access_count) VALUES (..., 1) per key
MigrateRows(oc, cache, todo, t) ==
    IF todo = {} THEN oc
    ELSE LET k == CHOOSE x \in todo : TRUE
         IN  IF k \in DOMAIN oc
             THEN MigrateRows(oc, cache, todo \ {k}, t)
             ELSE MigrateRows(Upsert(oc, k, NewRow(cache[k], t)), cache,
                              todo \ {k}, t)

RECURSIVE MigratePages(_, _, _, _)
\* INSERT OR IGNORE INTO chapter_pages (chapter_key, page_count, ...) per key
MigratePages(cp, chapter_pages_map, todo, t) ==
    IF todo = {} THEN cp
    ELSE LET k == CHOOSE x \in todo : TRUE
         IN  IF k \in DOMAIN cp
             THEN MigratePages(cp, chapter_pages_map, todo \ {k}, t)
             ELSE MigratePages(Upsert(cp, k, [page_count |-> chapter_pages_map[k],
                                              processed_count |-> 0,
                                              created_at |-> t,
                                              last_accessed_at |-> t]),
                               chapter_pages_map, todo \ {k}, t)

\* INSERT OR REPLACE INTO metadata (key, value) VALUES ('legacy_json_migrated', '1')
SetMigrated(md, faults) ==
    IF METADATA \in faults THEN md ELSE Upsert(md, LEGACY_JSON_MIGRATED, "1")

Migration(oc, cp, md, file) == [oc |-> oc, cp |-> cp, md |-> md, file |-> file]

\* the transaction and what follows its commit; a statement that fails is
\* skipped and the next one runs
MigrateTx(oc, cp, md, file, faults, t) ==
    IF COMMIT \in faults
    THEN Migration(oc, cp, md, file)
    ELSE Migration(MigrateRows(oc, file.v.cache,
                               IF OCR_CACHE \in faults THEN {} ELSE DOMAIN file.v.cache, t),
                   MigratePages(cp, file.v.chapter_pages_map,
                                IF CHAPTER_PAGES \in faults THEN {}
                                ELSE DOMAIN file.v.chapter_pages_map, t),
                   SetMigrated(md, faults),
                   IF REMOVE_FILE \in faults THEN file ELSE None)

\* a migration that does not look at the marker
migrate_legacy_cache_unmarked(oc, cp, md, file, faults, t) ==
    IF ~file.some THEN Migration(oc, cp, md, file)
    ELSE IF OPEN \in faults \/ ~file.v.json \/ TRANSACTION \in faults
    THEN Migration(oc, cp, md, file)
    ELSE MigrateTx(oc, cp, md, file, faults, t)

migrate_legacy_cache(oc, cp, md, file, faults, t) ==
    IF LEGACY_JSON_MIGRATED \in DOMAIN md /\ md[LEGACY_JSON_MIGRATED] = "1"
    THEN Migration(oc, cp, md, file)
    ELSE IF ~file.some THEN Migration(oc, cp, md, file)
    ELSE IF OPEN \in faults \/ ~file.v.json \/ TRANSACTION \in faults
    THEN Migration(oc, cp, md, file)
    ELSE MigrateTx(oc, cp, md, file, faults, t)

get_chapter_pages(cp, chapter_key, t) ==
    IF chapter_key \in DOMAIN cp
    THEN [count |-> Some(cp[chapter_key].page_count),
          cp |-> [cp EXCEPT ![chapter_key].last_accessed_at = t]]
    ELSE [count |-> None, cp |-> cp]

get_chapter_progress(cp, chapter_key, t) ==
    IF chapter_key \in DOMAIN cp
    THEN [progress |-> Some(<<cp[chapter_key].page_count,
                              cp[chapter_key].processed_count>>),
          cp |-> [cp EXCEPT ![chapter_key].last_accessed_at = t]]
    ELSE [progress |-> None, cp |-> cp]

set_chapter_pages(cp, chapter_key, page_count, t) ==
    IF chapter_key \in DOMAIN cp
    THEN [cp EXCEPT ![chapter_key].page_count = page_count,
                    ![chapter_key].last_accessed_at = t]
    ELSE Upsert(cp, chapter_key,
                [page_count |-> page_count, processed_count |-> 0,
                 created_at |-> t, last_accessed_at |-> t])

set_chapter_progress(cp, chapter_key, page_count, processed_count, t) ==
    IF chapter_key \in DOMAIN cp
    THEN [cp EXCEPT ![chapter_key].page_count = page_count,
                    ![chapter_key].processed_count = processed_count,
                    ![chapter_key].last_accessed_at = t]
    ELSE Upsert(cp, chapter_key,
                [page_count |-> page_count, processed_count |-> processed_count,
                 created_at |-> t, last_accessed_at |-> t])

(***************************************************************************)
(* The retry policy around the recognition pipeline (logic.rs).  The       *)
(* pipeline itself (fetch, tile, recognize, merge) is the environment: an  *)
(* attempt either yields a result list or fails with an error.             *)
(***************************************************************************)
MaxAttempts == 3

OkAttempt(data) == [ok |-> TRUE, data |-> data, error |-> ""]
ErrAttempt(error) == [ok |-> FALSE, data |-> <<>>, error |-> error]
\* the runs the requests of the model meet: success at once, success after
\* one and after two failures, and failure of every attempt
Runs ==
    {[i \in 1..MaxAttempts |-> OkAttempt(D1)],
     [i \in 1..MaxAttempts |-> OkAttempt(D2)],
     [i \in 1..MaxAttempts |-> IF i = 1 THEN ErrAttempt("E1") ELSE OkAttempt(D2)],
     [i \in 1..MaxAttempts |-> IF i = MaxAttempts THEN OkAttempt(D1) ELSE ErrAttempt("E2")],
     [i \in 1..MaxAttempts |-> IF i = MaxAttempts THEN ErrAttempt("E2") ELSE ErrAttempt("E1")]}

RECURSIVE RetryLoop(_, _, _, _)
\* for attempt_number in 1..=3 { match ... }; Err(last_error).  `errors` lists
\* the errors of the failed attempts, in order; after each one the loop
\* sleeps attempt_number seconds
RetryLoop(run, attempt_number, last_error, errors) ==
    IF attempt_number > MaxAttempts
    THEN [ok |-> FALSE, data |-> <<>>, error |-> last_error,
          attempts |-> attempt_number - 1, errors |-> errors,
          sleeps |-> [i \in 1..Len(errors) |-> i]]
    ELSE IF run[attempt_number].ok
    THEN [ok |-> TRUE, data |-> run[attempt_number].data, error |-> "",
          attempts |-> attempt_number, errors |-> errors,
          sleeps |-> [i \in 1..Len(errors) |-> i]]
    ELSE RetryLoop(run, attempt_number + 1, run[attempt_number].error,
                   Append(errors, run[attempt_number].error))

fetch_and_process(run) == RetryLoop(run, 1, "Unknown error", <<>>)

(***************************************************************************)
(* State.                                                                  *)
(***************************************************************************)
VARIABLES
    ocr_cache,            \* table ocr_cache
    chapter_cache,        \* table chapter_cache
    chapter_pages,        \* table chapter_pages
    active_chapter_jobs,  \* AppState.active_chapter_jobs: chapter key -> JobProgress
    tasks,                \* the spawned chapter job tasks, by slot
    now,                  \* the clock read by now_unix()
    ev,                   \* the last request served or task step taken
    metadata,             \* table metadata: key -> value
    gets,                 \* the get_cache_entry calls that have run their SELECT
                          \* and not yet their UPDATE, by caller
    cache_file,           \* <cache_dir>/ocr-cache.json, the snapshot older versions
                          \* wrote: None or Some(PersistentState)
    call                  \* a function under study: its input and, once it
                          \* has been applied, its result

db == <<ocr_cache, chapter_cache, chapter_pages>>
vars == <<ocr_cache, chapter_cache, chapter_pages, active_chapter_jobs, tasks, now, ev,
          metadata, gets, cache_file, call>>
\* what the handlers and the job tasks leave alone
aux == <<metadata, gets, cache_file, call>>

JobProgress(current, total) == [current |-> current, total |-> total]

IdleTask == [st |-> "idle", base |-> <<>>, pages |-> <<>>, i |-> 0,
             context |-> "", language |-> <<>>]
Slots == 1..MaxTasks
\* the request handlers that can be inside get_cache_entry at once
Callers == 1..MaxCallers

\* what a request or task step did: the operation, the keys it was about,
\* its response, the store and pipeline calls it made, in order, the
\* errors of the pipeline attempts that failed, the map given to an import
\* or returned by an export, and the steps of the store that failed
Event(op, chapter, page, pages, status, a, b, data, msg, calls) ==
    [op |-> op, chapter |-> chapter, page |-> page, pages |-> pages,
     status |-> status, a |-> a, b |-> b, data |-> data, msg |-> msg,
     calls |-> calls, errors |-> <<>>, context |-> "", input |-> EmptyTable,
     faults |-> {}]

\* counters and the clock stay inside the model's bounds
InBounds(oc) == \A k \in DOMAIN oc : oc[k].access_count <= MaxAccess

\* a server that has started on an empty cache_dir and has served nothing
Idle ==
    /\ ocr_cache = EmptyTable
    /\ chapter_cache = {}
    /\ chapter_pages = EmptyTable
    /\ active_chapter_jobs = EmptyTable
    /\ tasks = [t \in Slots |-> IdleTask]
    /\ now = 0
    /\ ev = Event("init", <<>>, <<>>, None, "", 0, 0, <<>>, "", <<>>)
    /\ metadata = EmptyTable
    /\ gets = [c \in Callers |-> None]
    /\ cache_file = None

Init == Idle /\ call = None

\* time passes
Tick ==
    /\ now < MaxNow
    /\ now' = now + 1
    /\ ev' = Event("tick", <<>>, <<>>, None, "", 0, 0, <<>>, "", <<>>)
    /\ UNCHANGED aux
    /\ UNCHANGED <<ocr_cache, chapter_cache, chapter_pages, active_chapter_jobs, tasks>>

(***************************************************************************)
(* handlers::ocr_handler: look a page up, or recognize it and store it.    *)
(* base_url is None or Some(url); `first` is the row a sourceId-variant    *)
(* lookup would return; `run` is what the pipeline would do.               *)
(***************************************************************************)
\* params.base_url.as_ref().map(|base| get_cache_key(base, Some(language)))
ChapterKeyOf(base_url, language) ==
    IF base_url.some THEN Some(cache_key_of(base_url.v, language)) ELSE None

\* the key of an Option<String>, empty for None (as events record it)
KeyOrEmpty(chapter_key) == IF chapter_key.some THEN chapter_key.v ELSE <<>>

\* if let Some(chapter_key) = chapter_key { state.insert_chapter_cache(..) }
AddMember(cc, chapter_key, cache_key) ==
    IF chapter_key.some THEN insert_chapter_cache(cc, chapter_key.v, cache_key)
    ELSE cc

AddMemberCall(chapter_key) ==
    IF chapter_key.some THEN <<"insert_chapter_cache">> ELSE <<>>

\* the cache hit
OcrHit(hit, cc, chapter_key, cache_key) ==
    [oc |-> hit.oc, cc |-> AddMember(cc, chapter_key, cache_key),
     status |-> "ok", data |-> hit.entry.v.data, msg |-> "", errors |-> <<>>,
     calls |-> <<"get_cache_entry">> \o AddMemberCall(chapter_key)]

\* a hit on a row whose key embeds sourceId that answers without the copy
OcrLegacyHit_unpromoted(legacy, cc, chapter_key, cache_key, t) ==
    [oc |-> legacy.oc,
     cc |-> AddMember(cc, chapter_key, cache_key),
     status |-> "ok", data |-> legacy.row.v.entry.data, msg |-> "",
     errors |-> <<>>,
     calls |-> <<"get_cache_entry", "get_cache_entry_sourceid_variant">>
               \o AddMemberCall(chapter_key)]

\* the hit on a row whose key embeds sourceId: the row is copied to cache_key
OcrLegacyHit(legacy, cc, chapter_key, cache_key, t) ==
    [oc |-> insert_cache_entry(legacy.oc, cache_key, legacy.row.v.entry, t),
     cc |-> AddMember(cc, chapter_key, cache_key),
     status |-> "ok", data |-> legacy.row.v.entry.data, msg |-> "",
     errors |-> <<>>,
     calls |-> <<"get_cache_entry", "get_cache_entry_sourceid_variant">>
               \o AddMemberCall(chapter_key) \o <<"insert_cache_entry">>]

\* match result { Ok(data) => ..., Err(e) => ... }
OcrMiss(result, oc, cc, chapter_key, cache_key, context, t) ==
    IF result.ok
    THEN [oc |-> insert_cache_entry(oc, cache_key,
                                    CacheEntry(context, result.data), t),
          cc |-> AddMember(cc, chapter_key, cache_key),
          status |-> "ok", data |-> result.data, msg |-> "",
          errors |-> result.errors,
          calls |-> <<"get_cache_entry", "get_cache_entry_sourceid_variant",
                      "fetch_and_process", "insert_cache_entry">>
                    \o AddMemberCall(chapter_key)]
    ELSE [oc |-> oc, cc |-> cc,
          status |-> "error", data |-> <<>>, msg |-> result.error,
          errors |-> result.errors,
          calls |-> <<"get_cache_entry", "get_cache_entry_sourceid_variant",
                      "fetch_and_process">>]

\* a handler that recognizes the page without looking it up
OcrLookup_uncached(oc, cc, cache_key, chapter_key, context, run, first, t) ==
    OcrMiss(fetch_and_process(run), oc, cc, chapter_key, cache_key, context, t)

\* the handler once cache_key and chapter_key are computed
OcrLookup(oc, cc, cache_key, chapter_key, context, run, first, t) ==
    IF get_cache_entry(oc, cache_key, t).entry.some
    THEN OcrHit(get_cache_entry(oc, cache_key, t), cc, chapter_key, cache_key)
    ELSE IF get_cache_entry_sourceid_variant(oc, cache_key, first, t).row.some
    THEN OcrLegacyHit(get_cache_entry_sourceid_variant(oc, cache_key, first, t),
                      cc, chapter_key, cache_key, t)
    ELSE OcrMiss(fetch_and_process(run), oc, cc, chapter_key, cache_key, context, t)

ocr_handler(oc, cc, url, base_url, context, language, run, first, t) ==
    OcrLookup(oc, cc, cache_key_of(url, language),
              ChapterKeyOf(base_url, language), context, run, first, t)

\* the rows a LIMIT 1 variant lookup may return (a placeholder when none)
FirstRows(oc, cache_key) ==
    IF SourceIdVariants(oc, cache_key) = {} THEN {<<>>}
    ELSE SourceIdVariants(oc, cache_key)

OcrRequest(url, base_url, language, run) ==
    \E first \in FirstRows(ocr_cache, cache_key_of(url, language)) :
    \E r \in {ocr_handler(ocr_cache, chapter_cache, url, base_url,
                          "No Context", language, run, first, now)} :
        /\ InBounds(r.oc)
        /\ ocr_cache' = r.oc
        /\ chapter_cache' = r.cc
        /\ ev' = [Event("ocr", KeyOrEmpty(ChapterKeyOf(base_url, language)),
                        cache_key_of(url, language), None, r.status, 0, 0,
                        r.data, r.msg, r.calls) EXCEPT !.errors = r.errors]
        /\ UNCHANGED aux
        /\ UNCHANGED <<chapter_pages, active_chapter_jobs, tasks, now>>

(***************************************************************************)
(* logic::resolve_total_pages_from_rest: the manga id and the chapter      *)
(* index are the path segments after "manga" and "chapter"; without them   *)
(* no request is made.  `reply` is what the page-serving API would answer. *)
(***************************************************************************)
MANGA == <<"m", "a", "n", "g", "a">>
CHAPTER == <<"c", "h", "a", "p", "t", "e", "r">>

ApiOk(count) == [ok |-> TRUE, count |-> count]
ApiErr == [ok |-> FALSE, count |-> 0]

\* parts.iter().position(|part| part == word), 0 when absent
Position(parts, word) ==
    IF \E i \in 1..Len(parts) : parts[i] = word
    THEN CHOOSE i \in 1..Len(parts) :
            parts[i] = word /\ \A j \in 1..(i - 1) : parts[j] # word
    ELSE 0

\* the segment after `word` exists
SegmentAfter(parts, word) ==
    Position(parts, word) # 0 /\ Position(parts, word) + 1 <= Len(parts)

\* with the segments of the path at hand
ResolveFromParts(parts, reply) ==
    IF SegmentAfter(parts, MANGA) /\ SegmentAfter(parts, CHAPTER)
    THEN reply
    ELSE ApiErr

resolve_total_pages_from_rest(chapter_base_url, reply) ==
    ResolveFromParts(Split(cache_key_of(chapter_base_url, NoLanguage), "/"), reply)

resolve_total_pages_from_graphql(chapter_base_url, reply) ==
    resolve_total_pages_from_rest(chapter_base_url, reply)

(***************************************************************************)
(* handlers::chapter_status.  pages is None or Some(list of page URLs).    *)
(***************************************************************************)
\* the || chain of the page loop, with the store calls it makes
PageCached(oc, cache_key) ==
    IF has_cache_entry(oc, cache_key)
    THEN [hit |-> TRUE, calls |-> <<"has_cache_entry">>]
    ELSE IF has_cache_entry_prefix(oc, cache_key \o <<"?">> \o SOURCE_ID \o <<"=">>)
    THEN [hit |-> TRUE, calls |-> <<"has_cache_entry", "has_cache_entry_prefix">>]
    ELSE [hit |-> has_cache_entry_prefix(oc, cache_key \o <<"&">> \o SOURCE_ID \o <<"=">>),
          calls |-> <<"has_cache_entry", "has_cache_entry_prefix",
                      "has_cache_entry_prefix">>]

\* one turn of the page loop, put before the result of the later turns
PushCached(cache_key, c, rest) ==
    [keys |-> (IF c.hit THEN <<cache_key>> ELSE <<>>) \o rest.keys,
     calls |-> c.calls \o rest.calls]

RECURSIVE CachedKeys(_, _, _)
\* for page in page_list { ... }: [keys, calls], keys being cached_keys
CachedKeys(oc, page_list, language) ==
    IF page_list = <<>> THEN [keys |-> <<>>, calls |-> <<>>]
    ELSE PushCached(cache_key_of(page_list[1], language),
                    PageCached(oc, cache_key_of(page_list[1], language)),
                    CachedKeys(oc, Tail(page_list), language))

RECURSIVE InsertMembers(_, _, _)
\* for cache_key in cached_keys { state.insert_chapter_cache(..) }
InsertMembers(cc, job_key, cached_keys) ==
    IF cached_keys = <<>> THEN cc
    ELSE InsertMembers(insert_chapter_cache(cc, job_key, cached_keys[1]),
                       job_key, Tail(cached_keys))

\* a classification that asks for more cached pages than expected
Classify_strict(cached_count, total_expected) ==
    IF total_expected > 0 /\ cached_count > total_expected
    THEN "processed" ELSE "idle"

\* the final classification (the last two returns of chapter_status)
Classify(cached_count, total_expected) ==
    IF total_expected > 0 /\ cached_count >= total_expected
    THEN "processed" ELSE "idle"

Counts(cached_count, total_expected, cc, cp, calls) ==
    [cached_count |-> cached_count, total_expected |-> total_expected,
     cc |-> cc, cp |-> cp, calls |-> calls]

\* if let Some(page_list) = req.pages.as_ref() { ... }, c being the page loop
CountPages(cc, cp, job_key, page_list, c, t) ==
    IF Len(c.keys) > 0
    THEN Counts(Len(c.keys), Len(page_list),
                InsertMembers(cc, job_key, c.keys),
                set_chapter_pages(cp, job_key, Len(page_list), t),
                c.calls \o <<"set_chapter_pages">>
                        \o [i \in 1..Len(c.keys) |-> "insert_chapter_cache"])
    ELSE Counts(0, 0, cc, cp, c.calls)

\* if let Some((page_count, _)) = get_chapter_progress(..) { .. }
\* else if let Some(page_count) = get_chapter_pages(..) { .. }
StoredTotal(cached_count, cc, cp, job_key, progress, count) ==
    IF progress.progress.some
    THEN Counts(cached_count, progress.progress.v[1], cc, progress.cp,
                <<"count_chapter_cache", "get_chapter_progress">>)
    ELSE Counts(cached_count, IF count.count.some THEN count.count.v ELSE 0,
                cc, count.cp,
                <<"count_chapter_cache", "get_chapter_progress", "get_chapter_pages">>)

\* an else branch that reads the stored total whatever the count
CountMembers_eager(cached_count, cc, cp, job_key, t) ==
    StoredTotal(cached_count, cc, cp, job_key,
                get_chapter_progress(cp, job_key, t),
                get_chapter_pages(cp, job_key, t))

\* the else branch: the count of membership rows and the stored total
CountMembers(cached_count, cc, cp, job_key, t) ==
    IF cached_count > 0
    THEN StoredTotal(cached_count, cc, cp, job_key,
                     get_chapter_progress(cp, job_key, t),
                     get_chapter_pages(cp, job_key, t))
    ELSE Counts(0, 0, cc, cp, <<"count_chapter_cache">>)

\* the (cached_count, total_expected) of the first part of chapter_status,
\* with the tables as that part leaves them
StatusCounts(oc, cc, cp, job_key, pages, language, t) ==
    IF pages.some
    THEN CountPages(cc, cp, job_key, pages.v, CachedKeys(oc, pages.v, language), t)
    ELSE CountMembers(count_chapter_cache(cc, job_key), cc, cp, job_key, t)

Status(cc, cp, status, a, b, calls) ==
    [cc |-> cc, cp |-> cp, status |-> status, a |-> a, b |-> b, calls |-> calls]

\* a resolution that also stores a count of 0
ResolveAndClassify_any(s, job_key, api, t) ==
    IF s.cached_count > 0 /\ s.total_expected = 0
    THEN IF api.ok
         THEN Status(s.cc, set_chapter_pages(s.cp, job_key, api.count, t),
                     Classify(s.cached_count, api.count),
                     s.cached_count, api.count,
                     s.calls \o <<"resolve_total_pages", "set_chapter_pages">>)
         ELSE Status(s.cc, s.cp, Classify(s.cached_count, 0), s.cached_count, 0,
                     s.calls \o <<"resolve_total_pages">>)
    ELSE Status(s.cc, s.cp, Classify(s.cached_count, s.total_expected),
                s.cached_count, s.total_expected, s.calls)

\* if cached_count > 0 && total_expected == 0 { resolve ... } and the returns
ResolveAndClassify(s, job_key, api, t) ==
    IF s.cached_count > 0 /\ s.total_expected = 0
    THEN IF api.ok /\ api.count > 0
         THEN Status(s.cc, set_chapter_pages(s.cp, job_key, api.count, t),
                     Classify(s.cached_count, api.count),
                     s.cached_count, api.count,
                     s.calls \o <<"resolve_total_pages", "set_chapter_pages">>)
         ELSE Status(s.cc, s.cp, Classify(s.cached_count, 0), s.cached_count, 0,
                     s.calls \o <<"resolve_total_pages">>)
    ELSE Status(s.cc, s.cp, Classify(s.cached_count, s.total_expected),
                s.cached_count, s.total_expected, s.calls)

\* a handler that counts the cached pages before it looks at the registry
StatusOfKey_counting(oc, cc, cp, jobs, job_key, pages, language, api, t) ==
    IF pages.some /\ pages.v = <<>>
    THEN Status(cc, cp, "idle", 0, 0, <<>>)
    ELSE IF StatusCounts(oc, cc, cp, job_key, pages, language, t).cached_count = 0
            /\ job_key \in DOMAIN jobs
    THEN Status(cc, cp, "processing", jobs[job_key].current, jobs[job_key].total,
                <<>>)
    ELSE ResolveAndClassify(StatusCounts(oc, cc, cp, job_key, pages, language, t),
                            job_key, api, t)

\* a handler that takes an empty page list for no page list
StatusOfKey_empty_as_none(oc, cc, cp, jobs, job_key, pages, language, api, t) ==
    IF job_key \in DOMAIN jobs
    THEN Status(cc, cp, "processing", jobs[job_key].current, jobs[job_key].total,
                <<>>)
    ELSE ResolveAndClassify(StatusCounts(oc, cc, cp, job_key,
                                         IF pages.some /\ pages.v = <<>>
                                         THEN None ELSE pages, language, t),
                            job_key, api, t)

\* the handler once job_key is computed; api is what the page-count
\* resolution would return
StatusOfKey(oc, cc, cp, jobs, job_key, pages, language, api, t) ==
    IF job_key \in DOMAIN jobs
    THEN Status(cc, cp, "processing", jobs[job_key].current, jobs[job_key].total,
                <<>>)
    ELSE IF pages.some /\ pages.v = <<>>
    THEN Status(cc, cp, "idle", 0, 0, <<>>)
    ELSE ResolveAndClassify(StatusCounts(oc, cc, cp, job_key, pages, language, t),
                            job_key, api, t)

RECURSIVE ResolvedOf(_)
\* the function from each <<base_url, reply>> of a non-empty set to what the
\* page-count resolution returns
ResolvedOf(requests) ==
    LET x == CHOOSE y \in requests : TRUE
    IN  IF requests = {x} THEN x :> resolve_total_pages_from_graphql(x[1], x[2])
        ELSE (x :> resolve_total_pages_from_graphql(x[1], x[2]))
             @@ ResolvedOf(requests \ {x})

\* resolve_total_pages_from_graphql on the chapters of the model, computed once
ResolveTable == ResolvedOf({ChA, ChB} \X {ApiOk(0), ApiOk(2), ApiErr})

chapter_status(oc, cc, cp, jobs, base_url, pages, language, reply, t) ==
    StatusOfKey(oc, cc, cp, jobs, cache_key_of(base_url, language), pages,
                language, ResolveTable[<<base_url, reply>>], t)

\* is_chapter_preprocessed_handler (POST, with or without pages) and
\* is_chapter_preprocessed_get_handler (GET, never with pages)
ChapterStatus(base_url, pages, language, reply) ==
    \E r \in {chapter_status(ocr_cache, chapter_cache, chapter_pages,
                             active_chapter_jobs, base_url, pages, language,
                             reply, now)} :
        /\ chapter_cache' = r.cc
        /\ chapter_pages' = r.cp
        /\ ev' = Event("status", cache_key_of(base_url, language), <<>>,
                       pages, r.status, r.a, r.b, <<>>, "", r.calls)
        /\ UNCHANGED <<ocr_cache, active_chapter_jobs, tasks, now>>

StatusRequest(base_url, pages, language, reply) ==
    ChapterStatus(base_url, pages, language, reply) /\ UNCHANGED aux

(***************************************************************************)
(* handlers::preprocess_handler: start a chapter job.  The handler reads   *)
(* the registry and spawns the task; the task is what registers the job.   *)
(***************************************************************************)
\* a handler that does not look at the registry
preprocess_handler_unchecked(jobs, base_url, pages, language) ==
    IF ~pages.some
    THEN [spawn |-> FALSE, status |-> "error"]
    ELSE [spawn |-> TRUE, status |-> "started"]

preprocess_handler(jobs, base_url, pages, language) ==
    IF ~pages.some
    THEN [spawn |-> FALSE, status |-> "error"]
    ELSE IF cache_key_of(base_url, language) \in DOMAIN jobs
    THEN [spawn |-> FALSE, status |-> "already_processing"]
    ELSE [spawn |-> TRUE, status |-> "started"]

FreeSlots == {t \in Slots : tasks[t].st = "idle"}

\* tokio::spawn(run_chapter_job(...)) into a free slot of the model
Spawn(ts, t, base_url, page_list, context, language) ==
    [ts EXCEPT ![t] = [st |-> "spawned", base |-> base_url, pages |-> page_list,
                       i |-> 0, context |-> context, language |-> language]]

\* access_count of a row, 0 when there is none
AccessCount(oc, cache_key) ==
    IF cache_key \in DOMAIN oc THEN oc[cache_key].access_count ELSE 0

\* a new task and the tasks already spawned can each write every page once
\* more without a row's access_count exceeding MaxAccess
Headroom(oc, ts, page_list, language) ==
    \A i \in 1..Len(page_list) :
        AccessCount(oc, cache_key_of(page_list[i], language))
            + Cardinality({t \in Slots : ts[t].st # "idle"}) < MaxAccess

PreprocessRequest(base_url, pages, language) ==
    \E r \in {preprocess_handler(active_chapter_jobs, base_url, pages, language)} :
        /\ r.spawn => FreeSlots # {} /\ Headroom(ocr_cache, tasks, pages.v, language)
        /\ tasks' = IF r.spawn
                    THEN Spawn(tasks, CHOOSE t \in FreeSlots :
                                          \A u \in FreeSlots : t <= u,
                               base_url, pages.v, "Job", language)
                    ELSE tasks
        /\ ev' = Event("preprocess", cache_key_of(base_url, language), <<>>,
                       pages, r.status, 0, 0, <<>>, "", <<>>)
        /\ UNCHANGED aux
        /\ UNCHANGED <<ocr_cache, chapter_cache, chapter_pages,
                       active_chapter_jobs, now>>

(***************************************************************************)
(* jobs::run_chapter_job, the spawned task: register the job, attempt      *)
(* every page in order, remove the job.  A page that is recognized is      *)
(* stored and added to the chapter, and advances the progress; a page      *)
(* that fails is skipped.                                                  *)
(***************************************************************************)
JobKey(task) == cache_key_of(task.base, task.language)

\* active_chapter_jobs.insert(job_key, JobProgress { current: 0, total })
RegisterJob(jobs, task) == Upsert(jobs, JobKey(task), JobProgress(0, Len(task.pages)))

\* the progress entry advances while it is still there
AdvanceJob(jobs, job_key) ==
    IF job_key \in DOMAIN jobs
    THEN [jobs EXCEPT ![job_key].current = @ + 1]
    ELSE jobs

\* a removal that leaves the entry in place
RemoveJob_kept(jobs, job_key) == jobs

\* active_chapter_jobs.remove(&job_key)
RemoveJob(jobs, job_key) == Without(jobs, {job_key})

\* the page the task is at
JobPageKey(task) == cache_key_of(task.pages[task.i], task.language)

\* a task that stores a recognized page without adding it to the chapter
JobPageResult_unlisted(result, oc, cc, jobs, job_key, cache_key, context, t) ==
    IF result.ok
    THEN [oc |-> insert_cache_entry(oc, cache_key,
                                    CacheEntry(context, result.data), t),
          cc |-> cc,
          jobs |-> AdvanceJob(jobs, job_key),
          ok |-> TRUE, data |-> result.data, msg |-> ""]
    ELSE [oc |-> oc, cc |-> cc, jobs |-> jobs,
          ok |-> FALSE, data |-> <<>>, msg |-> result.error]

\* what the task does with the result of the pipeline for one page
JobPageResult(result, oc, cc, jobs, job_key, cache_key, context, t) ==
    IF result.ok
    THEN [oc |-> insert_cache_entry(oc, cache_key,
                                    CacheEntry(context, result.data), t),
          cc |-> insert_chapter_cache(cc, job_key, cache_key),
          jobs |-> AdvanceJob(jobs, job_key),
          ok |-> TRUE, data |-> result.data, msg |-> ""]
    ELSE [oc |-> oc, cc |-> cc, jobs |-> jobs,
          ok |-> FALSE, data |-> <<>>, msg |-> result.error]

\* one page of the job: [oc, cc, jobs, ok] after the attempt on pages[i]
JobPage(oc, cc, jobs, task, run, t) ==
    JobPageResult(fetch_and_process(run), oc, cc, jobs, JobKey(task),
                  JobPageKey(task), task.context, t)

JobRegisterStep(t) ==
    /\ tasks[t].st = "spawned"
    /\ active_chapter_jobs' = RegisterJob(active_chapter_jobs, tasks[t])
    /\ tasks' = [tasks EXCEPT ![t].st = "running", ![t].i = 1]
    /\ ev' = Event("job_register", JobKey(tasks[t]), <<>>, None, "", t, 0,
                   <<>>, "", <<>>)
    /\ UNCHANGED aux
    /\ UNCHANGED <<ocr_cache, chapter_cache, chapter_pages, now>>

JobPageStep(t, run) ==
    /\ tasks[t].st = "running"
    /\ tasks[t].i <= Len(tasks[t].pages)
    /\ \E r \in {JobPage(ocr_cache, chapter_cache, active_chapter_jobs,
                         tasks[t], run, now)} :
        /\ ocr_cache' = r.oc
        /\ chapter_cache' = r.cc
        /\ active_chapter_jobs' = r.jobs
        /\ tasks' = [tasks EXCEPT ![t].i = @ + 1]
        /\ ev' = Event("job_page", JobKey(tasks[t]), JobPageKey(tasks[t]),
                       None, IF r.ok THEN "ok" ELSE "failed", t, tasks[t].i,
                       r.data, r.msg, <<>>)
    /\ UNCHANGED aux
    /\ UNCHANGED <<chapter_pages, now>>

JobFinishStep(t) ==
    /\ tasks[t].st = "running"
    /\ tasks[t].i > Len(tasks[t].pages)
    /\ active_chapter_jobs' = RemoveJob(active_chapter_jobs, JobKey(tasks[t]))
    /\ tasks' = [tasks EXCEPT ![t] = IdleTask]
    /\ ev' = Event("job_finish", JobKey(tasks[t]), <<>>, None, "", t, 0,
                   <<>>, "", <<>>)
    /\ UNCHANGED aux
    /\ UNCHANGED <<ocr_cache, chapter_cache, chapter_pages, now>>

(***************************************************************************)
(* handlers::delete_chapter_handler, purge_cache_handler,                  *)
(* export_cache_handler and import_cache_handler.                          *)
(***************************************************************************)
\* the response and the state once the store has deleted the chapter
Deleted(jobs, d) ==
    [jobs |-> jobs, oc |-> d.oc, cc |-> d.cc, cp |-> d.cp, rows |-> d.rows]

\* a handler that leaves the progress entry in the registry
delete_chapter_handler_tracked(oc, cc, cp, jobs, base_url, delete_data, language, faults) ==
    Deleted(jobs,
            delete_chapter_ocr(oc, cc, cp, cache_key_of(base_url, language),
                               delete_data, faults))

delete_chapter_handler(oc, cc, cp, jobs, base_url, delete_data, language, faults) ==
    Deleted(RemoveJob(jobs, cache_key_of(base_url, language)),
            delete_chapter_ocr(oc, cc, cp, cache_key_of(base_url, language),
                               delete_data, faults))

\* the handler, whatever else is recorded of the request
DeleteChapter(base_url, delete_data, language, faults) ==
    \E r \in {delete_chapter_handler(ocr_cache, chapter_cache, chapter_pages,
                                     active_chapter_jobs, base_url, delete_data,
                                     language, faults)} :
        /\ active_chapter_jobs' = r.jobs
        /\ ocr_cache' = r.oc
        /\ chapter_cache' = r.cc
        /\ chapter_pages' = r.cp
        /\ ev' = [Event("delete", cache_key_of(base_url, language), <<>>, None,
                        IF delete_data THEN "data" ELSE "metadata",
                        r.rows[1] + r.rows[2], r.rows[3], <<>>, "", <<>>)
                  EXCEPT !.faults = faults]
        /\ UNCHANGED <<tasks, now>>

DeleteChapterRequest(base_url, delete_data, language, faults) ==
    /\ DeleteChapter(base_url, delete_data, language, faults)
    /\ UNCHANGED aux

\* purge_cache_handler
Purge ==
    \E r \in {clear_cache(ocr_cache, chapter_cache, chapter_pages)} :
        /\ ocr_cache' = r.oc
        /\ chapter_cache' = r.cc
        /\ chapter_pages' = r.cp
        /\ ev' = Event("purge", <<>>, <<>>, None, "cleared", 0, 0, <<>>, "", <<>>)
        /\ UNCHANGED <<active_chapter_jobs, tasks, now>>

PurgeRequest == Purge /\ UNCHANGED aux

\* the maps a client may import: a legacy row, and a row for page PA1
ImportMaps ==
    LET legacy == [k \in {LegacyKey} |-> CacheEntry("No Context", D1)]
        page == [k \in {cache_key_of(PA1, JA)} |-> CacheEntry("No Context", D2)]
    IN  {legacy, page, Upsert(legacy, cache_key_of(PA1, JA), CacheEntry("No Context", D2))}

\* export_cache_handler: the response is the map export_cache returns
ExportRequest(faults) ==
    /\ ev' = [Event("export", <<>>, <<>>, None, "", 0, 0, <<>>, "", <<>>)
              EXCEPT !.input = export_cache(ocr_cache, faults), !.faults = faults]
    /\ UNCHANGED <<ocr_cache, chapter_cache, chapter_pages, active_chapter_jobs,
                   tasks, now, metadata, gets, cache_file, call>>

ImportRequest(data, faults) ==
    \E r \in {import_cache(ocr_cache, data, faults, now)} :
        /\ ocr_cache' = r.oc
        /\ ev' = [Event("import", <<>>, <<>>, None, "Import successful",
                        r.added, 0, <<>>, "", <<>>)
                  EXCEPT !.input = data, !.faults = faults]
        /\ UNCHANGED aux
        /\ UNCHANGED <<chapter_cache, chapter_pages, active_chapter_jobs,
                       tasks, now>>

\* a client imports the map its export has just returned
ReimportRequest ==
    /\ ev.op = "export"
    /\ ImportRequest(ev.input, NoFaults)

(***************************************************************************)
(* The chapter life cycle: clients start chapter jobs, poll the status of  *)
(* chapters and delete them, while the spawned job tasks run.              *)
(***************************************************************************)
\* the page lists of the chapter jobs a client starts
JobPageLists == {<<PA0, PA1>>}
\* what the pipeline does for a page of a job
JobRuns ==
    {[i \in 1..MaxAttempts |-> OkAttempt(D1)],
     [i \in 1..MaxAttempts |-> IF i = MaxAttempts THEN ErrAttempt("E2") ELSE ErrAttempt("E1")]}
\* the page lists of a status request
StatusPages == {None, Some(<<>>), Some(<<PA0>>), Some(<<PA0s, PA1>>)}
\* what the page-count API answers
StatusReplies == {ApiOk(0), ApiOk(2), ApiErr}

Next ==
    \/ \E pages \in {None} \cup {Some(l) : l \in JobPageLists} :
          PreprocessRequest(ChA, pages, JA)
    \/ \E t \in Slots : JobRegisterStep(t)
    \/ \E t \in Slots, run \in JobRuns : JobPageStep(t, run)
    \/ \E t \in Slots : JobFinishStep(t)
    \/ \E pages \in StatusPages, reply \in StatusReplies :
          StatusRequest(ChA, pages, JA, reply)
    \/ \E delete_data \in BOOLEAN : DeleteChapterRequest(ChA, delete_data, JA, NoFaults)

Spec == Init /\ [][Next]_vars

(***************************************************************************)
(* The same life cycle under the scheduling of the runtime: every spawned  *)
(* task is scheduled and every recognition attempt terminates, so a task   *)
(* that can take a step eventually takes it.  Requests come as they like;  *)
(* a status poll changes neither the tasks nor the registry, so one kind   *)
(* of poll stands for all.                                                 *)
(***************************************************************************)
\* the step a task can take
JobStep(t) ==
    \/ JobRegisterStep(t)
    \/ \E run \in JobRuns : JobPageStep(t, run)
    \/ JobFinishStep(t)

FairNext ==
    \/ \E pages \in {Some(l) : l \in JobPageLists} :
          PreprocessRequest(ChA, pages, JA)
    \/ \E t \in Slots : JobStep(t)
    \/ StatusRequest(ChA, None, JA, ApiErr)
    \/ \E delete_data \in BOOLEAN : DeleteChapterRequest(ChA, delete_data, JA, NoFaults)

Fairness == \A t \in Slots : WF_vars(JobStep(t))

FairSpec == Init /\ [][FairNext]_vars /\ Fairness

(***************************************************************************)
(* Deletes of a chapter whose job is running, under the scheduling of the  *)
(* runtime.  Here `call` is the record of the last delete request: the     *)
(* tasks that were running when it was handled.  The pipeline recognizes   *)
(* every page; pages that fail are followed in FairSpec.                   *)
(***************************************************************************)
CancelRequest(delete_data) ==
    /\ DeleteChapter(ChA, delete_data, JA, NoFaults)
    /\ call' = Some([running |-> {t \in Slots : tasks[t].st = "running"}])
    /\ UNCHANGED <<metadata, gets, cache_file>>

CancelNext ==
    \/ \E pages \in {Some(l) : l \in JobPageLists} :
          PreprocessRequest(ChA, pages, JA)
    \/ \E t \in Slots : JobRegisterStep(t)
    \/ \E t \in Slots : JobPageStep(t, [i \in 1..MaxAttempts |-> OkAttempt(D1)])
    \/ \E t \in Slots : JobFinishStep(t)
    \/ StatusRequest(ChA, None, JA, ApiErr)
    \/ \E delete_data \in BOOLEAN : CancelRequest(delete_data)

CancelSpec == Init /\ [][CancelNext]_vars /\ Fairness

(***************************************************************************)
(* handlers::is_chapters_preprocessed_handler: the chapters of the request *)
(* are taken from the stream in order and evaluated by chapter_status, at  *)
(* most concurrency_limit of them in flight at once (for_each_concurrent), *)
(* each inserting its answer into the results map under its base_url; the  *)
(* map is returned when all are done.  `call` is the request in flight.    *)
(* The runtime polls the handler until it returns, and every call of the   *)
(* page-count API comes back.                                              *)
(***************************************************************************)
concurrency_limit == 4

\* ChapterStatusBatchItem
BatchItem(base_url, pages, language) ==
    [base_url |-> base_url, pages |-> pages, language |-> language]

\* the chapters a client asks about, in turn: with and without a language of
\* their own, with and without a page list, the same base_url more than once
BatchItems ==
    <<BatchItem(ChA, None, Some(JA)),
      BatchItem(ChB, None, None),
      BatchItem(ChA, Some(<<PA0>>), Some(EN)),
      BatchItem(ChB, Some(<<PA0>>), Some(JA)),
      BatchItem(ChA, None, None)>>

\* ChapterStatusBatchRequest with n chapters
BatchRequestOf(n, language) ==
    [chapters |-> [i \in 1..n |-> BatchItems[((i - 1) % Len(BatchItems)) + 1]],
     language |-> language]

BatchRequests ==
    {BatchRequestOf(n, language) : n \in {1, 2, MaxChapters},
                                   language \in {Some(JA), Some(EN)}}

\* item.language.or(default_language)
ItemLanguage(item, default_language) ==
    IF item.language.some THEN item.language ELSE default_language

\* a stream that hands out its next item whatever is in flight
CanTake_unbounded(inflight, next, n) == next <= n

\* for_each_concurrent takes the next item while fewer than the limit are in flight
CanTake(inflight, next, n) ==
    Cardinality(inflight) < concurrency_limit /\ next <= n

\* the handler called: nothing is in flight and results is empty
BatchRequest(req) ==
    /\ call = None
    /\ call' = Some([chapters |-> req.chapters, language |-> req.language,
                     next |-> 1, inflight |-> {}, evaluated |-> {},
                     results |-> EmptyTable])
    /\ ev' = Event("batch_request", <<>>, <<>>, None, "", Len(req.chapters), 0,
                   <<>>, "", <<>>)
    /\ UNCHANGED <<ocr_cache, chapter_cache, chapter_pages, active_chapter_jobs,
                   tasks, now, metadata, gets, cache_file>>

\* the next chapter of the stream starts being evaluated
BatchTake ==
    /\ call.some
    /\ CanTake(call.v.inflight, call.v.next, Len(call.v.chapters))
    /\ call' = Some([call.v EXCEPT !.inflight = @ \cup {call.v.next},
                                   !.next = @ + 1])
    /\ ev' = Event("batch_take", <<>>, <<>>, None, "", call.v.next, 0, <<>>, "", <<>>)
    /\ UNCHANGED <<ocr_cache, chapter_cache, chapter_pages, active_chapter_jobs,
                   tasks, now, metadata, gets, cache_file>>

\* the evaluation of chapter i ends: chapter_status with the language of the
\* item or of the batch, then results.insert(item.base_url, value)
BatchEval(i, reply) ==
    /\ call.some
    /\ i \in call.v.inflight
    /\ \E language \in {ItemLanguage(call.v.chapters[i], call.v.language)} :
       \E r \in {chapter_status(ocr_cache, chapter_cache, chapter_pages,
                                active_chapter_jobs, call.v.chapters[i].base_url,
                                call.v.chapters[i].pages, language.v, reply, now)} :
        /\ chapter_cache' = r.cc
        /\ chapter_pages' = r.cp
        /\ call' = Some([call.v EXCEPT
                           !.inflight = @ \ {i},
                           !.evaluated = @ \cup {i},
                           !.results = Upsert(@, call.v.chapters[i].base_url,
                                              [status |-> r.status, a |-> r.a,
                                               b |-> r.b])])
        /\ ev' = Event("batch_item", cache_key_of(call.v.chapters[i].base_url,
                                                  language.v),
                       <<>>, call.v.chapters[i].pages, r.status, r.a, r.b,
                       <<>>, "", r.calls)
    /\ UNCHANGED <<ocr_cache, active_chapter_jobs, tasks, now, metadata, gets,
                   cache_file>>

\* the stream is exhausted and nothing is in flight: Json(out)
BatchReturn ==
    /\ call.some
    /\ call.v.next > Len(call.v.chapters)
    /\ call.v.inflight = {}
    /\ call' = None
    /\ ev' = [Event("batch_status", <<>>, <<>>, None, "", Len(call.v.chapters),
                    Cardinality(call.v.evaluated), <<>>, "", <<>>)
              EXCEPT !.input = call.v.results]
    /\ UNCHANGED <<ocr_cache, chapter_cache, chapter_pages, active_chapter_jobs,
                   tasks, now, metadata, gets, cache_file>>

\* a step of the handler
BatchStep ==
    \/ BatchTake
    \/ \E i \in 1..MaxChapters, reply \in {ApiOk(2), ApiErr} : BatchEval(i, reply)
    \/ BatchReturn

BatchNext ==
    \/ \E req \in BatchRequests : BatchRequest(req)
    \/ BatchStep
    \/ OcrRequest(PA0, Some(ChA), JA, [i \in 1..MaxAttempts |-> OkAttempt(D1)])

BatchSpec == Init /\ [][BatchNext]_vars /\ WF_vars(BatchStep)

(***************************************************************************)
(* Single pages: clients ask for the text of pages, import rows written    *)
(* by older versions, delete the chapter and purge the cache.              *)
(***************************************************************************)
PageNext ==
    \/ \E url \in {PA0, PA0s, PA1}, base_url \in {None, Some(ChA)}, run \in Runs :
          OcrRequest(url, base_url, JA, run)
    \/ \E data \in ImportMaps : ImportRequest(data, NoFaults)
    \/ ExportRequest(NoFaults)
    \/ ReimportRequest
    \/ \E delete_data \in BOOLEAN : DeleteChapterRequest(ChA, delete_data, JA, NoFaults)
    \/ PurgeRequest

PageSpec == Init /\ [][PageNext]_vars

(***************************************************************************)
(* The cache store on its own: rows are put and got while time passes.     *)
(***************************************************************************)
\* AppState::insert_cache_entry as a client of the store calls it
PutEntry(cache_key, entry) ==
    \E oc \in {insert_cache_entry(ocr_cache, cache_key, entry, now)} :
        /\ InBounds(oc)
        /\ ocr_cache' = oc
        /\ ev' = [Event("put", <<>>, cache_key, None, "", 0, 0,
                        entry.data, "", <<"insert_cache_entry">>)
                  EXCEPT !.context = entry.context]
        /\ UNCHANGED aux
        /\ UNCHANGED <<chapter_cache, chapter_pages, active_chapter_jobs, tasks, now>>

\* AppState::get_cache_entry as a client of the store calls it
GetEntry(cache_key) ==
    \E r \in {get_cache_entry(ocr_cache, cache_key, now)} :
        /\ InBounds(r.oc)
        /\ ocr_cache' = r.oc
        /\ ev' = Event("get", <<>>, cache_key, None,
                       IF r.entry.some THEN "some" ELSE "none", 0, 0,
                       IF r.entry.some THEN r.entry.v.data ELSE <<>>, "",
                       <<"get_cache_entry">>)
        /\ UNCHANGED aux
        /\ UNCHANGED <<chapter_cache, chapter_pages, active_chapter_jobs, tasks, now>>

StoreKeys == {cache_key_of(PA0, JA), cache_key_of(PA1, JA)}
StoreEntries == {CacheEntry(c, d) : c \in Contexts, d \in DataValues}

StoreNext ==
    \/ \E cache_key \in StoreKeys, entry \in StoreEntries : PutEntry(cache_key, entry)
    \/ \E cache_key \in StoreKeys : GetEntry(cache_key)
    \/ PurgeRequest
    \/ Tick

StoreSpec == Init /\ [][StoreNext]_vars

(***************************************************************************)
(* Polls of a chapter with no job: rows are put into the cache under the   *)
(* keys of this version and of older ones, single pages are recognized,   *)
(* and the status of the chapter is asked for with and without a page     *)
(* list.                                                                   *)
(***************************************************************************)
\* the key an older version gave to PQ requested with sourceId=1
LegacyAmpKey == cache_key_of(PQ, JA) \o <<"&">> \o SOURCE_ID \o <<"=", "1">>

PollKeys == {cache_key_of(PA0, JA), LegacyKey, LegacyAmpKey, LegacyKeyOf(PV)}
PollPages ==
    {None, Some(<<PA0>>), Some(<<PA0, PA1>>), Some(<<PQ, PA0s>>), Some(<<PU>>)}

\* a status request; `call` keeps what the page-count API would answer to it
PollRequest(pages, reply) ==
    /\ ChapterStatus(ChA, pages, JA, reply)
    /\ call' = Some([reply |-> reply])
    /\ UNCHANGED <<metadata, gets, cache_file>>

PollNext ==
    \/ \E cache_key \in PollKeys \ DOMAIN ocr_cache :
          PutEntry(cache_key, CacheEntry("No Context", D1))
    \/ OcrRequest(PA1, Some(ChA), JA, [i \in 1..MaxAttempts |-> OkAttempt(D1)])
    \/ \E pages \in PollPages, reply \in StatusReplies : PollRequest(pages, reply)
    \/ DeleteChapterRequest(ChA, FALSE, JA, NoFaults)

PollSpec == Init /\ [][PollNext]_vars

(***************************************************************************)
(* The store over a database that was found at the start, with rows whose  *)
(* data column holds bytes that are no JSON list of lines (written by      *)
(* another version, or cut short): pages are got, looked up and exported.  *)
(***************************************************************************)
\* a blob that serde_json::from_slice does not decode
Undecodable == [json |-> FALSE, lines |-> <<>>]

\* a row of the database found at the start
FoundRow(data_blob) ==
    [context |-> "No Context", data |-> data_blob, created_at |-> 0,
     last_processed_at |-> 0, last_accessed_at |-> 0, access_count |-> 1]

\* the tables found: a row for PA1, a row an older version wrote for PA0,
\* or both, each with data that decodes or not
FoundTables ==
    UNION {[keys -> {FoundRow(to_vec(D1)), FoundRow(Undecodable)}] :
             keys \in (SUBSET {cache_key_of(PA1, JA), LegacyKey}) \ {{}}}

DecodeInit ==
    /\ ocr_cache \in FoundTables
    /\ chapter_cache = {}
    /\ chapter_pages = EmptyTable
    /\ active_chapter_jobs = EmptyTable
    /\ tasks = [t \in Slots |-> IdleTask]
    /\ now = 0
    /\ ev = Event("init", <<>>, <<>>, None, "", 0, 0, <<>>, "", <<>>)
    /\ metadata = EmptyTable
    /\ gets = [c \in Callers |-> None]
    /\ cache_file = None
    /\ call = None

DecodeNext ==
    \/ \E cache_key \in {cache_key_of(PA0, JA), cache_key_of(PA1, JA), LegacyKey} :
          GetEntry(cache_key)
    \/ \E url \in {PA0, PA1} :
          OcrRequest(url, None, JA, [i \in 1..MaxAttempts |-> OkAttempt(D2)])
    \/ ExportRequest(NoFaults)
    \/ Tick

DecodeSpec == DecodeInit /\ [][DecodeNext]_vars

(***************************************************************************)
(* get_cache_entry statement by statement.  The SELECT and the UPDATE are   *)
(* two statements on a pooled connection with no transaction around them,  *)
(* and the handlers run on a multi-threaded runtime: whatever another      *)
(* caller commits between the two is seen by the UPDATE.                   *)
(***************************************************************************)
\* conn.query_row(SELECT context, data_blob ...): a row is read and kept by
\* the caller, or the call returns None at once
GetSelect(c, cache_key) ==
    /\ ~gets[c].some
    /\ IF cache_key \in DOMAIN ocr_cache
       THEN /\ gets' = [gets EXCEPT ![c] = Some([cache_key |-> cache_key,
                                                 entry |-> ReadEntry(ocr_cache, cache_key)])]
            /\ ev' = Event("get_select", <<>>, cache_key, None, "some", c, 0,
                           <<>>, "", <<>>)
       ELSE /\ gets' = gets
            /\ ev' = Event("get", <<>>, cache_key, None, "none", c, 0,
                           <<>>, "", <<"get_cache_entry">>)
    /\ UNCHANGED <<ocr_cache, chapter_cache, chapter_pages, active_chapter_jobs,
                   tasks, now, metadata, cache_file, call>>

\* let _ = conn.execute(UPDATE ocr_cache SET ... access_count = access_count + 1
\* WHERE cache_key = ?), then Some(CacheEntry { context, data })
GetUpdate(c) ==
    /\ gets[c].some
    /\ \E oc \in {BumpAccess(ocr_cache, gets[c].v.cache_key, now)} :
        /\ InBounds(oc)
        /\ ocr_cache' = oc
        /\ gets' = [gets EXCEPT ![c] = None]
        /\ ev' = Event("get", <<>>, gets[c].v.cache_key, None, "some", c, 0,
                       gets[c].v.entry.data, "", <<"get_cache_entry">>)
        /\ UNCHANGED <<chapter_cache, chapter_pages, active_chapter_jobs,
                       tasks, now, metadata, cache_file, call>>

\* callers get rows while others put rows, recognize a page of the chapter,
\* delete the chapter and purge the cache
GetNext ==
    \/ \E c \in Callers, cache_key \in StoreKeys : GetSelect(c, cache_key)
    \/ \E c \in Callers : GetUpdate(c)
    \/ \E data \in DataValues : PutEntry(cache_key_of(PA0, JA), CacheEntry("No Context", data))
    \/ OcrRequest(PA0, Some(ChA), JA, [i \in 1..MaxAttempts |-> OkAttempt(D1)])
    \/ DeleteChapterRequest(ChA, TRUE, JA, NoFaults)
    \/ PurgeRequest
    \/ Tick

GetSpec == Init /\ [][GetNext]_vars

(***************************************************************************)
(* Starts of the server.  AppState::new opens the database of cache_dir,   *)
(* runs migrate_legacy_cache and begins with an empty job registry; the    *)
(* tasks and the calls of the process before it are gone.                  *)
(***************************************************************************)
\* the snapshot an older version left: one page under its old key, and the
\* page count of the chapter
LegacyFiles ==
    {PersistentState([k \in {LegacyKey} |-> CacheEntry("No Context", D1)],
                     [k \in {cache_key_of(ChA, JA)} |-> 2])}
\* what may fail during a start
StartFaults ==
    {NoFaults, {TRANSACTION}, {OCR_CACHE}, {COMMIT}}

StartEvent(r) ==
    Event("startup", <<>>, <<>>, None,
          IF LEGACY_JSON_MIGRATED \in DOMAIN r.md THEN "migrated" ELSE "",
          0, 0, <<>>, "", <<>>)

\* AppState::new in a cache_dir that has no database: the tables are created
\* empty and the snapshot `file` is there or not
NewState(file, faults) ==
    \E r \in {migrate_legacy_cache(EmptyTable, EmptyTable, EmptyTable, file, faults, 0)} :
        /\ ocr_cache = r.oc
        /\ chapter_cache = {}
        /\ chapter_pages = r.cp
        /\ metadata = r.md
        /\ cache_file = r.file
        /\ active_chapter_jobs = EmptyTable
        /\ tasks = [t \in Slots |-> IdleTask]
        /\ gets = [c \in Callers |-> None]
        /\ now = 0
        /\ ev = StartEvent(r)

\* the first start in a cache_dir
FirstStart ==
    \E file \in {None} \cup {Some(f) : f \in LegacyFiles}, faults \in StartFaults :
        /\ NewState(file, faults)
        /\ call = None

\* AppState::new on the database the process before it left
Restart(faults) ==
    \E r \in {migrate_legacy_cache(ocr_cache, chapter_pages, metadata, cache_file,
                                   faults, now)} :
        /\ ocr_cache' = r.oc
        /\ chapter_pages' = r.cp
        /\ metadata' = r.md
        /\ cache_file' = r.file
        /\ active_chapter_jobs' = EmptyTable
        /\ tasks' = [t \in Slots |-> IdleTask]
        /\ gets' = [c \in Callers |-> None]
        /\ ev' = StartEvent(r)
        /\ UNCHANGED <<chapter_cache, now>>

\* the process is stopped and started again
Startup(faults) ==
    /\ Restart(faults)
    /\ UNCHANGED call

\* the life of the cache rows: starts, puts, gets, single-page lookups that
\* fall back to a sourceId variant, imports and purges
RowNext ==
    \/ \E faults \in StartFaults : Startup(faults)
    \/ PutEntry(cache_key_of(PA1, JA), CacheEntry("Job", D2))
    \/ \E c \in Callers, cache_key \in {LegacyKey, cache_key_of(PA1, JA)} :
          GetSelect(c, cache_key)
    \/ \E c \in Callers : GetUpdate(c)
    \/ OcrRequest(PA0, None, JA, [i \in 1..MaxAttempts |-> ErrAttempt("E1")])
    \/ \E data \in ImportMaps : ImportRequest(data, NoFaults)
    \/ PurgeRequest

RowSpec == FirstStart /\ [][RowNext]_vars

(***************************************************************************)
(* Clearing the cache: in a cache_dir whose legacy file was migrated at    *)
(* the start, a chapter job runs, the status of two chapters is asked,     *)
(* the cache is purged, and rows are got after a purge.                    *)
(***************************************************************************)
ClearKeys == {cache_key_of(PA0, JA), LegacyKey}

\* what the last clear found: rows in all three tables, or not; `call`
\* holds it in this specification
Cleared(oc, cc, cp) ==
    [full |-> oc # EmptyTable /\ cc # {} /\ cp # EmptyTable]

ClearRequest ==
    /\ Purge
    /\ call' = Some(Cleared(ocr_cache, chapter_cache, chapter_pages))
    /\ UNCHANGED <<metadata, gets, cache_file>>

\* a client gets a page right after a clear
GetCleared(cache_key) ==
    /\ ev.op = "purge"
    /\ GetEntry(cache_key)

ClearNext ==
    \/ PreprocessRequest(ChA, Some(<<PA0, PA1>>), JA)
    \/ \E t \in Slots : JobRegisterStep(t)
    \/ \E t \in Slots : JobPageStep(t, [i \in 1..MaxAttempts |-> OkAttempt(D1)])
    \/ \E t \in Slots : JobFinishStep(t)
    \/ \E base_url \in {ChA, ChB}, pages \in {None, Some(<<PA0, PA1>>)} :
          StatusRequest(base_url, pages, JA, ApiOk(2))
    \/ \E cache_key \in ClearKeys : GetCleared(cache_key)
    \/ ClearRequest

\* the first start in a cache_dir that holds a legacy file: its rows are
\* imported and the marker is set
ClearStart ==
    /\ \E file \in LegacyFiles : NewState(Some(file), NoFaults)
    /\ call = None

ClearSpec == ClearStart /\ [][ClearNext]_vars

(***************************************************************************)
(* The membership table: pages are recognized for two chapters that share  *)
(* a page, rows are put, got and imported, the status of a chapter is      *)
(* asked with a page list that names a page twice, chapters are deleted    *)
(* and the cache is purged.                                                *)
(***************************************************************************)
MemberNext ==
    \/ \E url \in {PA0, PA1} :
          OcrRequest(url, Some(ChA), JA, [i \in 1..MaxAttempts |-> OkAttempt(D1)])
    \/ OcrRequest(PA0, Some(ChB), JA, [i \in 1..MaxAttempts |-> OkAttempt(D1)])
    \/ PutEntry(cache_key_of(PA1, JA), CacheEntry("Job", D2))
    \/ GetEntry(cache_key_of(PA0, JA))
    \/ \E data \in ImportMaps : ImportRequest(data, NoFaults)
    \/ \E pages \in {None, Some(<<PA0, PA0s>>)} :
          StatusRequest(ChA, pages, JA, ApiOk(2))
    \/ \E base_url \in {ChA, ChB}, delete_data \in BOOLEAN :
          DeleteChapterRequest(base_url, delete_data, JA, NoFaults)
    \/ PurgeRequest

MemberSpec == Init /\ [][MemberNext]_vars

(***************************************************************************)
(* Deleting a chapter: pages of two chapters are recognized, rows written  *)
(* by older versions are imported, page counts are stored by status        *)
(* requests, and the first chapter is deleted.                             *)
(***************************************************************************)
\* the rows older versions wrote for the pages PU and PV
LegacyMaps ==
    {[k \in {LegacyKeyOf(PU)} |-> CacheEntry("No Context", D1)],
     [k \in {LegacyKeyOf(PV)} |-> CacheEntry("No Context", D2)]}

DeleteNext ==
    \/ OcrRequest(PU, Some(ChA), JA, [i \in 1..MaxAttempts |-> OkAttempt(D1)])
    \/ OcrRequest(PV, Some(ChB), JA, [i \in 1..MaxAttempts |-> OkAttempt(D2)])
    \/ \E data \in LegacyMaps : ImportRequest(data, NoFaults)
    \/ \E base_url \in {ChA, ChB} : StatusRequest(base_url, None, JA, ApiOk(2))
    \/ \E delete_data \in BOOLEAN : DeleteChapterRequest(ChA, delete_data, JA, NoFaults)

DeleteSpec == Init /\ [][DeleteNext]_vars

(***************************************************************************)
(* The store when its steps can fail: a page of the chapter is recognized, *)
(* a page count is stored, and deletes, imports and exports run with any   *)
(* one of their steps failing, or none.                                    *)
(***************************************************************************)
DeleteFaults ==
    {NoFaults, {POOL}, {TRANSACTION}, {SELECT}, {CHAPTER_CACHE}, {CHAPTER_PAGES},
     {OCR_CACHE}, {COMMIT}}
ImportFaults == {NoFaults, {POOL}, {TRANSACTION}, {OCR_CACHE}, {COMMIT}}
ExportFaults == {NoFaults, {POOL}, {SELECT}}

FaultNext ==
    \/ OcrRequest(PA0, Some(ChA), JA, [i \in 1..MaxAttempts |-> OkAttempt(D1)])
    \/ StatusRequest(ChA, None, JA, ApiOk(2))
    \/ \E delete_data \in BOOLEAN, faults \in DeleteFaults :
          DeleteChapterRequest(ChA, delete_data, JA, faults)
    \/ \E data \in ImportMaps, faults \in ImportFaults : ImportRequest(data, faults)
    \/ \E faults \in ExportFaults : ExportRequest(faults)

FaultSpec == Init /\ [][FaultNext]_vars

(***************************************************************************)
(* logic::fetch_and_process iteration by iteration.  `run` gives what      *)
(* fetch_and_process_internal would return each time it is called, one     *)
(* call more than the loop can make.                                       *)
(***************************************************************************)
Outcomes == {OkAttempt(D1), ErrAttempt("E1"), ErrAttempt("E2")}
AllRuns == [1..MaxAttempts + 1 -> Outcomes]

\* let mut last_error = anyhow!("Unknown error"), before the first iteration;
\* attempts counts the calls of fetch_and_process_internal, sleeps lists the
\* seconds slept
RetryStart(run) ==
    [run |-> run, attempt_number |-> 1, last_error |-> "Unknown error",
     attempts |-> 0, sleeps |-> <<>>, result |-> None]

\* a loop body that goes on to the next iteration after a success too
RetryAttempt_goes_on(c) ==
    [c EXCEPT !.attempts = @ + 1,
              !.last_error = c.run[c.attempt_number].error,
              !.attempt_number = @ + 1]

\* the body of the loop: Ok(result) => return Ok(result); Err(error) =>
\* { last_error = error; sleep(attempt_number seconds) }
RetryAttempt(c) ==
    IF c.run[c.attempt_number].ok
    THEN [c EXCEPT !.attempts = @ + 1,
                   !.result = Some(OkAttempt(c.run[c.attempt_number].data))]
    ELSE [c EXCEPT !.attempts = @ + 1,
                   !.last_error = c.run[c.attempt_number].error,
                   !.sleeps = Append(@, c.attempt_number),
                   !.attempt_number = @ + 1]

\* one iteration of for attempt_number in 1..=3
AttemptStep ==
    /\ call.some
    /\ ~call.v.result.some
    /\ call.v.attempt_number <= MaxAttempts
    /\ call' = Some(RetryAttempt(call.v))
    /\ ev' = Event("attempt", <<>>, <<>>, None, "", call.v.attempt_number, 0,
                   <<>>, "", <<>>)
    /\ UNCHANGED <<ocr_cache, chapter_cache, chapter_pages, active_chapter_jobs,
                   tasks, now, metadata, gets, cache_file>>

\* Err(last_error), after the loop
ExhaustedStep ==
    /\ call.some
    /\ ~call.v.result.some
    /\ call.v.attempt_number > MaxAttempts
    /\ call' = Some([call.v EXCEPT !.result = Some(ErrAttempt(call.v.last_error))])
    /\ ev' = Event("exhausted", <<>>, <<>>, None, "", call.v.attempt_number, 0,
                   <<>>, "", <<>>)
    /\ UNCHANGED <<ocr_cache, chapter_cache, chapter_pages, active_chapter_jobs,
                   tasks, now, metadata, gets, cache_file>>

RetryInit == Idle /\ call \in {Some(RetryStart(run)) : run \in AllRuns}
RetryNext == AttemptStep \/ ExhaustedStep
RetrySpec == RetryInit /\ [][RetryNext]_vars

(***************************************************************************)
(* The starts of the server in one cache_dir, with every step of           *)
(* migrate_legacy_cache able to fail, between which rows are put and the   *)
(* cache is purged.  Here `call` is the record of the starts so far: how   *)
(* many of them added a row to a table (counted up to 2) and the steps     *)
(* that failed in the last one.                                            *)
(***************************************************************************)
MigrateSteps == {OPEN, TRANSACTION, OCR_CACHE, CHAPTER_PAGES, METADATA, COMMIT, REMOVE_FILE}
MigrateFaults == SUBSET MigrateSteps

Starts(imports, faults) == [imports |-> imports, faults |-> faults]

\* did the start add a row to ocr_cache or to chapter_pages
Imported(oc, cp, oc2, cp2) == DOMAIN oc2 # DOMAIN oc \/ DOMAIN cp2 # DOMAIN cp

CountImport(imports, oc, cp, oc2, cp2) ==
    IF Imported(oc, cp, oc2, cp2) /\ imports < 2 THEN imports + 1 ELSE imports

\* a legacy file that serde_json::from_reader does not decode
UndecodableFile == [json |-> FALSE, cache |-> EmptyTable, chapter_pages_map |-> EmptyTable]

MigrateFiles == LegacyFiles \cup {UndecodableFile}

MigrateFirstStart ==
    \E file \in {None} \cup {Some(f) : f \in MigrateFiles}, faults \in MigrateFaults :
        /\ NewState(file, faults)
        /\ call = Some(Starts(CountImport(0, EmptyTable, EmptyTable,
                                          ocr_cache, chapter_pages), faults))

MigrateStartup(faults) ==
    /\ Restart(faults)
    /\ call' = Some(Starts(CountImport(call.v.imports, ocr_cache, chapter_pages,
                                       ocr_cache', chapter_pages'), faults))

MigrateNext ==
    \/ \E faults \in MigrateFaults : MigrateStartup(faults)
    \/ PutEntry(LegacyKey, CacheEntry("Job", D2))
    \/ PurgeRequest

MigrateSpec == MigrateFirstStart /\ [][MigrateNext]_vars

(***************************************************************************)
(* logic::get_cache_key on pairs of URLs that have the same path and the   *)
(* same parameters other than sourceId, in the same order.  A URL is given *)
(* by its parts; a URL with no scheme is a path with its query, as a       *)
(* client may send it.                                                     *)
(***************************************************************************)
APP == <<"a", "p", "p">>
\* scheme and host (with port), or neither
UrlPrefixes ==
    {[scheme |-> HTTP, host |-> <<"h">>],
     [scheme |-> HTTPS, host |-> <<"h">>],
     [scheme |-> HTTP, host |-> <<"x", ":", "8">>],
     [scheme |-> APP, host |-> <<"h">>],
     [scheme |-> <<>>, host |-> <<>>]}
UrlPaths == {<<>>, <<"/", "a">>}
\* the parameters other than sourceId
UrlParams == {<<>>, << <<"x", "=", "1">> >>}
\* no sourceId, sourceId=1 before the other parameters, sourceId=2 after them
SourceIds == {0, 1, 2}

ParamsWith(params, sid) ==
    CASE sid = 1 -> <<SOURCE_ID \o <<"=", "1">> >> \o params
      [] sid = 2 -> params \o <<SOURCE_ID \o <<"=", "2">> >>
      [] OTHER -> params

QueryString(params) ==
    IF params = <<>> THEN <<>> ELSE <<"?">> \o Join(params, <<"&">>)

UrlOf(prefix, path, params, sid) ==
    (IF prefix.scheme = <<>> THEN <<>>
     ELSE prefix.scheme \o <<":", "/", "/">> \o prefix.host)
    \o path \o QueryString(ParamsWith(params, sid))

\* two URLs with the same path and parameters, both with a scheme and a host
\* or both without, and a language setting
KeyCalls ==
    {[a |-> x, b |-> y, sid_a |-> i, sid_b |-> j, path |-> path, params |-> params,
      language |-> language, done |-> FALSE, key_a |-> <<>>, key_b |-> <<>>] :
        x \in UrlPrefixes, y \in UrlPrefixes, i \in SourceIds, j \in SourceIds,
        path \in UrlPaths, params \in UrlParams,
        language \in Languages \cup {NoLanguage}}

\* both URLs are asked for their key
KeyStep ==
    /\ call.some
    /\ ~call.v.done
    /\ call' = Some([call.v EXCEPT
                       !.done = TRUE,
                       !.key_a = get_cache_key(UrlOf(call.v.a, call.v.path, call.v.params,
                                                   call.v.sid_a), call.v.language),
                       !.key_b = get_cache_key(UrlOf(call.v.b, call.v.path, call.v.params,
                                                   call.v.sid_b), call.v.language)])
    /\ ev' = Event("get_cache_key", <<>>, <<>>, None, "", 0, 0, <<>>, "", <<>>)
    /\ UNCHANGED <<ocr_cache, chapter_cache, chapter_pages, active_chapter_jobs,
                   tasks, now, metadata, gets, cache_file>>

KeyInit ==
    /\ Idle
    /\ call \in {Some(c) : c \in {k \in KeyCalls :
                                     /\ (k.a.scheme = <<>>) = (k.b.scheme = <<>>)
                                     /\ k.a.scheme = <<>> => k.path # <<>>}}
KeyNext == KeyStep
KeySpec == KeyInit /\ [][KeyNext]_vars

(***************************************************************************)
(* logic::get_cache_key called on one URL four ways: with the language of  *)
(* the request, with no language, with "&sourceId=X" appended to the URL,  *)
(* and on the key it returned.  The URLs have a special scheme, another    *)
(* scheme or none, a path with zero, one or two leading slashes, and no    *)
(* query, an empty one, or parameters with and without sourceId.           *)
(***************************************************************************)
NormPrefixes ==
    {HTTP \o <<":", "/", "/", "h">>,
     HTTPS \o <<":", "/", "/", "x", ":", "8">>,
     APP \o <<":", "/", "/", "h">>,
     \* a scheme followed by a path that is itself a URL
     APP \o <<":">> \o HTTP \o <<":", "/", "/", "h">>,
     <<>>}
NormPaths == {<<>>, <<"/">>, <<"/", "a">>, <<"/", "/", "a">>}
NormQueries ==
    {<<>>,
     <<"?">>,
     <<"?", "x", "=", "1">>,
     <<"?">> \o SOURCE_ID \o <<"=", "3">>,
     <<"?", "x", "=", "1", "&">> \o SOURCE_ID \o <<"=", "3">>,
     <<"?", "x", "=", "1", "#", "g">>}
\* the values of the appended sourceId
NormValues == {<<>>, <<"1">>, <<"a", "=", "b">>}

\* url + "&sourceId=" + X
WithSourceId(url, x) == url \o <<"&">> \o SOURCE_ID \o <<"=">> \o x

NormCalls ==
    {[prefix |-> prefix, path |-> path, query |-> query, x |-> x,
      url |-> prefix \o path \o query, language |-> language, done |-> FALSE,
      key |-> <<>>, key_none |-> <<>>, key_appended |-> <<>>, key_again |-> <<>>] :
        prefix \in NormPrefixes, path \in NormPaths, query \in NormQueries,
        x \in NormValues, language \in Languages \cup {NoLanguage}}

NormStep ==
    /\ call.some
    /\ ~call.v.done
    /\ call' = Some([call.v EXCEPT
                       !.done = TRUE,
                       !.key = get_cache_key(call.v.url, call.v.language),
                       !.key_none = get_cache_key(call.v.url, NoLanguage),
                       !.key_appended = get_cache_key(WithSourceId(call.v.url, call.v.x),
                                                      call.v.language),
                       !.key_again = get_cache_key(get_cache_key(call.v.url,
                                                                 call.v.language),
                                                   call.v.language)])
    /\ ev' = Event("get_cache_key", <<>>, <<>>, None, "", 0, 0, <<>>, "", <<>>)
    /\ UNCHANGED <<ocr_cache, chapter_cache, chapter_pages, active_chapter_jobs,
                   tasks, now, metadata, gets, cache_file>>

NormInit ==
    /\ Idle
    \* a URL with no scheme is a path, as a client may send it
    /\ call \in {Some(c) : c \in {k \in NormCalls : k.prefix = <<>> => k.path # <<>>}}
NormNext == NormStep
NormSpec == NormInit /\ [][NormNext]_vars

(***************************************************************************)
(* logic::get_raw_ocr_data and logic::fetch_and_process_internal: the      *)
(* geometry of one page.  The page is cut into strips, the recognizer      *)
(* answers for each strip with lines whose geometry is in fractions of     *)
(* the strip, each line is reduced to an axis-aligned box in pixels of     *)
(* the strip, the lines of a strip are merged, and every box is mapped to  *)
(* fractions of the whole page.  Fractions of the recognizer are in        *)
(* tenths and the sides of a page are multiples of 20, for which the f32   *)
(* products of the code are the exact integers; lines are unrotated        *)
(* (rotation_z = 0, so that cos is 1 and sin is 0).  A coordinate that     *)
(* leaves the pipeline is the double nearest to a quotient of two          *)
(* integers, and is kept as that quotient in lowest terms.                 *)
(***************************************************************************)
\* let chunk_height_limit = 3000;
chunk_height_limit == 3000

RECURSIVE Gcd(_, _)
Gcd(a, b) == IF b = 0 THEN a ELSE Gcd(b, a % b)

\* the quotient n / d of a division in f64, d > 0
Ratio(n, d) ==
    LET g == Gcd(IF n < 0 THEN -n ELSE n, d)
    IN  [n |-> n \div g, d |-> d \div g]

\* a <= b for two quotients
RatioLe(a, b) == a.n * b.d <= b.n * a.d

\* a + b for two quotients
RatioSum(a, b) == Ratio(a.n * b.d + b.n * a.d, a.d * b.d)

\* the smallest and the largest of a non-empty set of numbers
MinOf(s) == CHOOSE x \in s : \A y \in s : x <= y
MaxOf(s) == CHOOSE x \in s : \A y \in s : y <= x

\* the geometry of a recognized line, in tenths of the strip's sides
Geometry(center_x, center_y, width, height) ==
    [center_x |-> center_x, center_y |-> center_y, width |-> width,
     height |-> height, rotation_z |-> 0]

\* (geometry.center_x * full_image_width as f32) as f64
Pixels(tenths, side) == (tenths * side) \div 10

\* the corners of the line's rectangle about its centre, each moved to the
\* centre (cos_a = 1, sin_a = 0)
Corners(cx, cy, hw, hh) ==
    {<<cx - hw, cy - hh>>, <<cx + hw, cy - hh>>, <<cx + hw, cy + hh>>,
     <<cx - hw, cy + hh>>}

BoundingBox(x, y, width, height) ==
    [x |-> x, y |-> y, width |-> width, height |-> height, rotation |-> None]

\* the box from min_x, min_y to max_x, max_y of the corners
BoxOfCorners(corners) ==
    BoundingBox(MinOf({c[1] : c \in corners}), MinOf({c[2] : c \in corners}),
                MaxOf({c[1] : c \in corners}) - MinOf({c[1] : c \in corners}),
                MaxOf({c[2] : c \in corners}) - MinOf({c[2] : c \in corners}))

\* the axis-aligned box of a line in pixels of its strip
TightBoundingBox(geometry, full_image_width, current_chunk_height) ==
    BoxOfCorners(Corners(Pixels(geometry.center_x, full_image_width),
                         Pixels(geometry.center_y, current_chunk_height),
                         Pixels(geometry.width, full_image_width) \div 2,
                         Pixels(geometry.height, current_chunk_height) \div 2))

OcrLine(is_merged, tight_bounding_box) ==
    [is_merged |-> is_merged, tight_bounding_box |-> tight_bounding_box]

\* flat_ocr_lines of a strip: one line for each line of the answer that has
\* a geometry, in order
RECURSIVE FlatOcrLines(_, _, _)
FlatOcrLines(lines, full_image_width, current_chunk_height) ==
    IF lines = <<>> THEN <<>>
    ELSE (IF Head(lines).some
          THEN <<OcrLine(FALSE, TightBoundingBox(Head(lines).v, full_image_width,
                                                 current_chunk_height))>>
          ELSE <<>>)
         \o FlatOcrLines(Tail(lines), full_image_width, current_chunk_height)

RawChunk(lines, width, height, global_y, full_width, full_height) ==
    [lines |-> lines, width |-> width, height |-> height, global_y |-> global_y,
     full_width |-> full_width, full_height |-> full_height]

\* strips that are all of the full height
ChunkHeight_full(full_image_height, current_y_position) == chunk_height_limit

\* std::cmp::min(chunk_height_limit, full_image_height - current_y_position)
ChunkHeight(full_image_height, current_y_position) ==
    MinOf({chunk_height_limit, full_image_height - current_y_position})

\* the box that holds two boxes
Combined(a, b) ==
    BoundingBox(MinOf({a.x, b.x}), MinOf({a.y, b.y}),
                MaxOf({a.x + a.width, b.x + b.width}) - MinOf({a.x, b.x}),
                MaxOf({a.y + a.height, b.y + b.height}) - MinOf({a.y, b.y}))

\* merge::auto_merge: the lists it may return for the lines of a strip, the
\* lines as they are or two lines merged into one
auto_merge(lines) ==
    {lines} \cup
    (IF Len(lines) = 2
     THEN {<<OcrLine(TRUE, Combined(lines[1].tight_bounding_box,
                                     lines[2].tight_bounding_box))>>}
     ELSE {})

\* the box of a merged line in pixels of its strip without the strip's
\* place on the page
Normalized_in_strip(box, chunk) ==
    [box EXCEPT !.x = Ratio(box.x, chunk.full_width),
                !.width = Ratio(box.width, chunk.full_width),
                !.y = Ratio(box.y, chunk.full_height),
                !.height = Ratio(box.height, chunk.full_height)]

\* Chunk Pixels -> Global Pixels -> Global Normalized
Normalized(box, chunk) ==
    [box EXCEPT !.x = Ratio(box.x, chunk.full_width),
                !.width = Ratio(box.width, chunk.full_width),
                !.y = Ratio(box.y + chunk.global_y, chunk.full_height),
                !.height = Ratio(box.height, chunk.full_height)]

\* the merged lines of a chunk with their boxes normalized
FinalResults(merged_lines, chunk) ==
    [i \in 1..Len(merged_lines) |->
        [merged_lines[i] EXCEPT
            !.tight_bounding_box = Normalized(merged_lines[i].tight_bounding_box,
                                              chunk)]]

\* the pages: width and height in pixels
Images == {[width |-> 1000, height |-> h] : h \in {1000, 2000, 4000}}

\* the geometries a recognizer may return for a line
Geometries ==
    {Geometry(cx, cy, w, h) : cx \in {0, 1, 5, 10}, cy \in {1, 5},
                              w \in {2, 4, 10}, h \in {1, 10}}

\* the answers of the recognizer for a strip: no line, a line without
\* geometry, one line, or two lines
LensResponses ==
    {<<>>, <<None>>}
    \cup {<<Some(g)>> : g \in Geometries}
    \cup {<<Some(Geometry(5, 5, 2, 1)), Some(g)>> :
            g \in {Geometry(5, 1, 4, 1), Geometry(1, 5, 4, 10)}}
    \cup {<<None, Some(Geometry(5, 5, 2, 1))>>}

\* a page that has been decoded, before its first strip
PipeCall(image) ==
    [image |-> image, phase |-> "strips", current_y_position |-> 0,
     responses |-> <<>>, raw_chunks |-> <<>>, next |-> 1,
     merged_lines |-> <<>>, final_results |-> <<>>]

\* one turn of the loop of get_raw_ocr_data: the next strip and its lines
StripStep(response) ==
    /\ call.some
    /\ call.v.phase = "strips"
    /\ call.v.current_y_position < call.v.image.height
    /\ \E height \in {ChunkHeight(call.v.image.height, call.v.current_y_position)} :
         call' = Some([call.v EXCEPT
             !.responses = Append(@, response),
             !.raw_chunks = Append(@, RawChunk(
                 FlatOcrLines(response, call.v.image.width, height),
                 call.v.image.width, height, call.v.current_y_position,
                 call.v.image.width, call.v.image.height)),
             !.current_y_position = @ + chunk_height_limit,
             !.phase = IF call.v.current_y_position + chunk_height_limit
                            < call.v.image.height
                       THEN "strips" ELSE "chunks"])
    /\ ev' = Event("strip", <<>>, <<>>, None, "", Len(call.v.raw_chunks) + 1, 0,
                   <<>>, "", <<>>)
    /\ UNCHANGED <<ocr_cache, chapter_cache, chapter_pages, active_chapter_jobs,
                   tasks, now, metadata, gets, cache_file>>

\* one turn of the loop of fetch_and_process_internal: the lines of the
\* next chunk are merged and normalized; after the last chunk the results
\* are returned
ChunkStep ==
    /\ call.some
    /\ call.v.phase = "chunks"
    /\ \E chunk \in {call.v.raw_chunks[call.v.next]} :
         \E merged_lines \in auto_merge(chunk.lines) :
            call' = Some([call.v EXCEPT
                !.merged_lines = merged_lines,
                !.final_results = @ \o FinalResults(merged_lines, chunk),
                !.next = @ + 1,
                !.phase = IF call.v.next = Len(call.v.raw_chunks)
                          THEN "done" ELSE "chunks"])
    /\ ev' = Event("chunk", <<>>, <<>>, None, "", call.v.next, 0, <<>>, "", <<>>)
    /\ UNCHANGED <<ocr_cache, chapter_cache, chapter_pages, active_chapter_jobs,
                   tasks, now, metadata, gets, cache_file>>

PipeInit == Idle /\ call \in {Some(PipeCall(image)) : image \in Images}
PipeNext == (\E response \in LensResponses : StripStep(response)) \/ ChunkStep
PipeSpec == PipeInit /\ [][PipeNext]_vars

(***************************************************************************)
(* The strips of pages of many heights: shorter than a strip, one strip    *)
(* exactly, and up to three strips with a full or a short last one.  The   *)
(* recognizer finds no line, one line or two lines in a strip.             *)
(***************************************************************************)
TileImages ==
    {[width |-> 1000, height |-> h] : h \in {20, 3000, 3020, 6000, 6020, 9000}}

TileResponses ==
    {<<>>, <<Some(Geometry(5, 5, 2, 1))>>,
     <<Some(Geometry(5, 1, 4, 1)), Some(Geometry(1, 5, 4, 10))>>}

TileInit == Idle /\ call \in {Some(PipeCall(image)) : image \in TileImages}
TileNext == (\E response \in TileResponses : StripStep(response)) \/ ChunkStep
TileSpec == TileInit /\ [][TileNext]_vars

(***************************************************************************)
(* The sync server: GoogleDriveBackend::pull and push of two devices on    *)
(* one Drive folder.  A push awaits find_sync_file and then the upload, so *)
(* the requests of other devices run between the two.  Here `call` holds   *)
(* the files named SYNC_FILE_NAME in the folder (id -> content) and the    *)
(* push each device has in flight.                                         *)
(***************************************************************************)
Devices == {"d1", "d2"}
\* the payloads, as the bytes uploaded
Payloads == {"p1", "p2"}

\* Drive's md5Checksum of a file's content
Md5(content) == <<"md5", content>>

\* the etag a caller of push passes
Etags == {None} \cup {Some(Md5(content)) : content \in Payloads}

\* no push in flight
NoPush == [pc |-> "idle", data |-> "", etag |-> None, existing_file |-> None]

Drive(files, pushes) == [files |-> files, pushes |-> pushes]

\* find_sync_file: files.first() of the list Drive returns, (id, md5Checksum)
FoundFiles(files) ==
    IF DOMAIN files = {} THEN {None}
    ELSE {Some([file_id |-> id, current_etag |-> Md5(files[id])]) : id \in DOMAIN files}

\* push up to the upload: Conflict when the caller's etag is not the one
\* found
PushChecked(existing_file, etag) ==
    IF existing_file.some /\ etag.some /\ etag.v # existing_file.v.current_etag
    THEN "conflict"
    ELSE "upload"

\* etag is the one the caller passed, remote_etag the checksum of the file
\* when the step ran, result the etag of PushResult::Success
DriveEvent(op, device, status, etag, remote_etag, existing_file, result) ==
    [Event(op, <<>>, <<>>, None, status, 0, 0, <<>>, "", <<>>)
     EXCEPT !.input = [device |-> device, etag |-> etag,
                       remote_etag |-> remote_etag,
                       existing_file |-> existing_file, result |-> result]]

SyncUnchanged ==
    UNCHANGED <<ocr_cache, chapter_cache, chapter_pages, active_chapter_jobs,
                tasks, now, metadata, gets, cache_file>>

\* pull: the content of the file found and its etag
PullRequest(device) ==
    /\ call.v.pushes[device].pc = "idle"
    /\ \E found \in FoundFiles(call.v.files) :
          ev' = DriveEvent("pull", device, IF found.some THEN "some" ELSE "none",
                           None, IF found.some THEN Some(found.v.current_etag) ELSE None,
                           found, None)
    /\ UNCHANGED call
    /\ SyncUnchanged

\* push until it awaits the upload: find_sync_file, then the etag check; ok
\* is whether the Drive request succeeds
PushCheckStep(device, data, etag, ok) ==
    /\ call.v.pushes[device].pc = "idle"
    /\ \E found \in FoundFiles(call.v.files) :
          IF ~ok
          THEN /\ ev' = DriveEvent("push", device, "error", etag, None, None, None)
               /\ UNCHANGED call
          ELSE IF PushChecked(found, etag) = "conflict"
          THEN /\ ev' = DriveEvent("push", device, "conflict", etag,
                                   Some(found.v.current_etag), found, None)
               /\ UNCHANGED call
          ELSE /\ ev' = DriveEvent("push", device, "checked", etag,
                                   IF found.some THEN Some(found.v.current_etag)
                                   ELSE None, found, None)
               /\ call' = Some(Drive(call.v.files,
                                      [call.v.pushes EXCEPT ![device] =
                                          [pc |-> "upload", data |-> data,
                                           etag |-> etag,
                                           existing_file |-> found]]))
    /\ SyncUnchanged

\* the upload of push: files().update of the file found, or files().create
\* when none was found
PushUploadStep(device, ok) ==
    LET push == call.v.pushes[device]
        files == call.v.files
        file_id == IF push.existing_file.some THEN push.existing_file.v.file_id
                   ELSE Cardinality(DOMAIN files) + 1
        remote_etag == IF file_id \in DOMAIN files THEN Some(Md5(files[file_id]))
                       ELSE None
    IN  /\ push.pc = "upload"
        /\ IF ok
           THEN /\ call' = Some(Drive(Upsert(files, file_id, push.data),
                                      [call.v.pushes EXCEPT ![device] = NoPush]))
                /\ ev' = DriveEvent("upload", device, "success", push.etag,
                                    remote_etag, push.existing_file,
                                    Some(Md5(push.data)))
           ELSE /\ call' = Some(Drive(files,
                                      [call.v.pushes EXCEPT ![device] = NoPush]))
                /\ ev' = DriveEvent("upload", device, "error", push.etag,
                                    remote_etag, push.existing_file, None)
        /\ SyncUnchanged

SyncInit ==
    /\ Idle
    /\ call = Some(Drive(EmptyTable, [d \in Devices |-> NoPush]))

SyncNext ==
    \/ \E device \in Devices : PullRequest(device)
    \/ \E device \in Devices, data \in Payloads, etag \in Etags, ok \in BOOLEAN :
          PushCheckStep(device, data, etag, ok)
    \/ \E device \in Devices, ok \in BOOLEAN : PushUploadStep(device, ok)

SyncSpec == SyncInit /\ [][SyncNext]_vars

(***************************************************************************)
(* Properties of the chapter life cycle (Spec, FairSpec).                  *)
(***************************************************************************)
\* a chapter job task is in flight from its spawn to its last step
InFlight(t) == tasks[t].st # "idle"

\* C1: at any time at most one chapter job task is in flight for a chapter
\* key, whatever the interleaving of start, status and delete requests.
C1_OneTaskPerChapter ==
    \A t, u \in Slots :
        (t # u /\ InFlight(t) /\ InFlight(u)) => JobKey(tasks[t]) # JobKey(tasks[u])

\* C2: a start request that finds a JobProgress entry for the chapter key
\* answers "already_processing" and changes nothing: no task is spawned, the
\* registry keeps its entries, and no table is written.
C2_AlreadyProcessing ==
    [][(/\ ev'.op = "preprocess"
        /\ ev'.pages.some
        /\ ev'.chapter \in DOMAIN active_chapter_jobs)
       => (/\ ev'.status = "already_processing"
           /\ tasks' = tasks
           /\ active_chapter_jobs' = active_chapter_jobs
           /\ db' = db)]_vars

\* a start request was refused while the job it found had finished a page
C2_Witness ==
    /\ ev.op = "preprocess"
    /\ ev.status = "already_processing"
    /\ ev.chapter \in DOMAIN active_chapter_jobs
    /\ active_chapter_jobs[ev.chapter].current = 1
    /\ \E t \in Slots : tasks[t].st = "running"

\* C3: when a start request answers "started" the job is registered: the
\* registry holds a JobProgress entry for the chapter key from that moment.
C3_StartedIsRegistered ==
    [][(ev'.op = "preprocess" /\ ev'.status = "started")
       => ev'.chapter \in DOMAIN active_chapter_jobs']_vars

\* C4: every started chapter job eventually attempts all of its pages and
\* then removes its JobProgress entry, leaving no job registered for the
\* chapter key, however many pages succeeded (each attempt terminating).
C4_JobsFinish ==
    \A t \in Slots :
        (tasks[t].st = "spawned")
            ~> (/\ ev.op = "job_finish"
                /\ ev.a = t
                /\ tasks[t].st = "idle"
                /\ ev.chapter \notin DOMAIN active_chapter_jobs)

\* a job has finished and left the registry although its first page failed
C4_Witness ==
    /\ ev.op = "job_finish"
    /\ ev.chapter \notin DOMAIN active_chapter_jobs
    /\ \A t \in Slots : ~InFlight(t)
    /\ cache_key_of(PA0, JA) \notin DOMAIN ocr_cache
    /\ cache_key_of(PA1, JA) \in DOMAIN ocr_cache

\* C5: a recognition failure on a page does not abort the chapter job: the
\* task goes on to the next page of its list, in order, and ends only after
\* the last one; each page that succeeds gets its cache entry and its
\* chapter membership row.
C5_JobContinues ==
    [][/\ ev'.op = "job_page"
          => /\ tasks'[ev'.a].st = "running"
             /\ tasks'[ev'.a].pages = tasks[ev'.a].pages
             /\ ev'.b = tasks[ev'.a].i
             /\ tasks'[ev'.a].i = tasks[ev'.a].i + 1
             /\ ev'.page = cache_key_of(tasks[ev'.a].pages[ev'.b], tasks[ev'.a].language)
             /\ ev'.status = "ok"
                  => /\ ev'.page \in DOMAIN ocr_cache'
                     /\ from_slice(ocr_cache'[ev'.page].data) = ev'.data
                     /\ <<ev'.chapter, ev'.page>> \in chapter_cache'
       /\ ev'.op = "job_finish"
          => tasks[ev'.a].i = Len(tasks[ev'.a].pages) + 1]_vars

\* the second page of a job was recognized and stored after its first failed
C5_Witness ==
    /\ ev.op = "job_page"
    /\ ev.status = "ok"
    /\ ev.b = 2
    /\ cache_key_of(PA0, JA) \notin DOMAIN ocr_cache
    /\ ev.page = cache_key_of(PA1, JA)
    /\ ev.page \in DOMAIN ocr_cache
    /\ <<ev.chapter, ev.page>> \in chapter_cache

\* C6: while the registry holds a JobProgress entry for the chapter key,
\* chapter status answers "processing" with the entry's current and total,
\* whatever the page list, the cached pages and the stored page count are,
\* and makes no call to the cache store.
C6_Processing ==
    [][(ev'.op = "status" /\ ev'.chapter \in DOMAIN active_chapter_jobs)
       => (/\ ev'.status = "processing"
           /\ ev'.a = active_chapter_jobs[ev'.chapter].current
           /\ ev'.b = active_chapter_jobs[ev'.chapter].total
           /\ ev'.calls = <<>>
           /\ db' = db)]_vars

\* "processing" 1 of 2 was answered to a request with a page list, for a
\* chapter with membership rows and a stored page count
C6_Witness ==
    /\ ev.op = "status"
    /\ ev.status = "processing"
    /\ ev.pages.some /\ ev.pages.v # <<>>
    /\ ev.a = 1 /\ ev.b = 2
    /\ count_chapter_cache(chapter_cache, ev.chapter) = 2
    /\ ev.chapter \in DOMAIN chapter_pages

\* C7: with no JobProgress entry for the chapter key, chapter status answers
\* "processed" exactly when total_expected > 0 and cached_count >=
\* total_expected, and "idle" in every other case.
C7_Classification ==
    [][(ev'.op = "status" /\ ev'.chapter \notin DOMAIN active_chapter_jobs)
       => (/\ ev'.status \in {"processed", "idle"}
           /\ ev'.status = "processed" <=> (ev'.b > 0 /\ ev'.a >= ev'.b))]_vars

\* "idle" was answered with one page cached of the two expected
C7_Witness ==
    /\ ev.op = "status"
    /\ ev.chapter \notin DOMAIN active_chapter_jobs
    /\ ev.status = "idle"
    /\ ev.a = 1 /\ ev.b = 2

\* C8: with no JobProgress entry and an empty page list, chapter status
\* answers "idle" with cached_count 0 and total_expected 0 and persists
\* nothing, whatever membership rows and page count the chapter has.
C8_EmptyPageList ==
    [][(/\ ev'.op = "status"
        /\ ev'.chapter \notin DOMAIN active_chapter_jobs
        /\ ev'.pages = Some(<<>>))
       => (/\ ev'.status = "idle"
           /\ ev'.a = 0 /\ ev'.b = 0
           /\ ev'.calls = <<>>
           /\ db' = db)]_vars

\* the empty list was sent for a chapter with two membership rows and a
\* stored page count
C8_Witness ==
    /\ ev.op = "status"
    /\ ev.pages = Some(<<>>)
    /\ ev.status = "idle"
    /\ ev.chapter \notin DOMAIN active_chapter_jobs
    /\ count_chapter_cache(chapter_cache, ev.chapter) = 2
    /\ ev.chapter \in DOMAIN chapter_pages

(***************************************************************************)
(* Properties of single-page requests (PageSpec).                          *)
(***************************************************************************)
\* the call is among the calls a request made
Called(calls, name) == \E i \in 1..Len(calls) : calls[i] = name

\* C9: a page whose normalized key is in the cache is answered with the
\* stored result, the pipeline not being invoked; a page whose key is absent
\* and has no sourceId variant is put through the pipeline: on success the
\* result is stored under the normalized key and returned, on failure
\* nothing is stored and the answer is an error with the message of the
\* last error.
C9_LookupOrRecognize ==
    [][ev'.op = "ocr"
       => /\ ev'.page \in DOMAIN ocr_cache
             => /\ ev'.status = "ok"
                /\ ev'.data = from_slice(ocr_cache[ev'.page].data)
                /\ ~Called(ev'.calls, "fetch_and_process")
          /\ (ev'.page \notin DOMAIN ocr_cache
              /\ SourceIdVariants(ocr_cache, ev'.page) = {})
             => /\ Called(ev'.calls, "fetch_and_process")
                /\ ev'.status \in {"ok", "error"}
                /\ ev'.status = "ok"
                     => /\ Called(ev'.calls, "insert_cache_entry")
                        /\ ev'.page \in DOMAIN ocr_cache'
                        /\ ocr_cache'[ev'.page].data = to_vec(ev'.data)
                        /\ from_slice(ocr_cache'[ev'.page].data) = ev'.data
                /\ ev'.status = "error"
                     => /\ db' = db
                        /\ Len(ev'.errors) = MaxAttempts
                        /\ ev'.msg = ev'.errors[MaxAttempts]]_vars

\* a page that is in no row was answered with the error of the third
\* attempt, the first two having failed with another one
C9_Witness ==
    /\ ev.op = "ocr"
    /\ ev.status = "error"
    /\ ev.errors = <<"E1", "E1", "E2">>
    /\ ev.msg = "E2"
    /\ ev.page \notin DOMAIN ocr_cache
    /\ ocr_cache # EmptyTable

(***************************************************************************)
(* Properties of the cache store (StoreSpec).                              *)
(***************************************************************************)
\* C10: a put followed by a get of the same key returns the data put; a put
\* on an existing key replaces context and data with the new entry's, leaves
\* created_at unchanged and adds exactly 1 to access_count; a put on an
\* absent key sets access_count to 1.
C10_PutGet ==
    [][/\ ev'.op = "put"
          => /\ ev'.page \in DOMAIN ocr_cache'
             /\ ocr_cache'[ev'.page].context = ev'.context
             /\ ocr_cache'[ev'.page].data = to_vec(ev'.data)
             /\ ev'.page \in DOMAIN ocr_cache
                  => /\ ocr_cache'[ev'.page].created_at
                            = ocr_cache[ev'.page].created_at
                     /\ ocr_cache'[ev'.page].access_count
                            = ocr_cache[ev'.page].access_count + 1
             /\ ev'.page \notin DOMAIN ocr_cache
                  => ocr_cache'[ev'.page].access_count = 1
       /\ (ev.op = "put" /\ ev'.op = "get" /\ ev'.page = ev.page)
          => /\ ev'.status = "some"
             /\ ev'.data = ev.data]_vars

\* a row created at time 0 was put again at time 1
C10_Witness ==
    /\ ev.op = "put"
    /\ ev.context = "Job"
    /\ ev.data = D2
    /\ ocr_cache[ev.page].created_at = 0
    /\ ocr_cache[ev.page].last_processed_at = 1
    /\ ocr_cache[ev.page].access_count = 2

(***************************************************************************)
(* Properties of get_cache_entry under concurrent callers (GetSpec).       *)
(***************************************************************************)
\* C11: every get that returns an entry is matched by exactly one increment
\* of that row's access_count (and the update of its last_accessed_at),
\* whatever other callers put, delete, clear or get in between; a get that
\* misses changes nothing.
C11_GetBumpsOnce ==
    [][ev'.op = "get"
       => IF ev'.status = "some"
          THEN /\ ev'.page \in DOMAIN ocr_cache
               /\ ev'.page \in DOMAIN ocr_cache'
               /\ ocr_cache'[ev'.page].access_count
                    = ocr_cache[ev'.page].access_count + 1
               /\ ocr_cache'[ev'.page].last_accessed_at = now
          ELSE db' = db]_vars

(***************************************************************************)
(* Properties of the rows of ocr_cache (RowSpec).                          *)
(***************************************************************************)
\* C12: every row of ocr_cache has access_count >= 1 in every reachable
\* state, and the access_count of a row never decreases while the row
\* exists, across put, get, sourceId-variant lookup, import and the
\* migration at startup.
C12_AccessCount ==
    /\ [](\A k \in DOMAIN ocr_cache : ocr_cache[k].access_count >= 1)
    /\ [][\A k \in DOMAIN ocr_cache \cap DOMAIN ocr_cache' :
            ocr_cache'[k].access_count >= ocr_cache[k].access_count]_vars

\* a row the migration inserted was then read by a sourceId-variant lookup,
\* which wrote its entry under the normalized key
C12_Witness ==
    /\ ev.op = "ocr"
    /\ Called(ev.calls, "get_cache_entry_sourceid_variant")
    /\ LEGACY_JSON_MIGRATED \in DOMAIN metadata
    /\ LegacyKey \in DOMAIN ocr_cache
    /\ ocr_cache[LegacyKey].access_count = 2
    /\ ev.page \in DOMAIN ocr_cache
    /\ ocr_cache[ev.page].access_count = 1

(***************************************************************************)
(* Properties of import and export (PageSpec).                             *)
(***************************************************************************)
\* C13: an import inserts the entry of every key of its map that is absent
\* from the store, leaves the row of every key already present as it was
\* (context, data, timestamps and access_count), and returns the number of
\* keys that are present after the call and were absent before it.
C13_ImportAddsAbsent ==
    [][ev'.op = "import"
       => /\ DOMAIN ocr_cache' = DOMAIN ocr_cache \cup DOMAIN ev'.input
          /\ \A k \in DOMAIN ocr_cache : ocr_cache'[k] = ocr_cache[k]
          /\ \A k \in DOMAIN ev'.input \ DOMAIN ocr_cache :
                ReadEntry(ocr_cache', k) = ev'.input[k]
          /\ ev'.a = Cardinality(DOMAIN ocr_cache' \ DOMAIN ocr_cache)]_vars

\* an import of two keys added one: the other was in the store with other
\* data, and still is
C13_Witness ==
    /\ ev.op = "import"
    /\ ev.a = 1
    /\ DOMAIN ev.input = {LegacyKey, cache_key_of(PA1, JA)}
    /\ ReadEntry(ocr_cache, cache_key_of(PA1, JA)).data = D1
    /\ ev.input[cache_key_of(PA1, JA)].data = D2
    /\ ReadEntry(ocr_cache, LegacyKey) = ev.input[LegacyKey]

\* C14: importing the same map twice in a row returns 0 the second time and
\* leaves the store unchanged; importing the map an export has just
\* returned returns 0 and changes nothing.
C14_ImportIdempotent ==
    [][(/\ ev'.op = "import"
        /\ ev.op \in {"import", "export"}
        /\ ev'.input = ev.input)
       => (ev'.a = 0 /\ db' = db)]_vars

\* the export of a store of three rows has been imported again and has
\* added nothing
C14_Witness ==
    /\ ev.op = "import"
    /\ ev.a = 0
    /\ DOMAIN ev.input = DOMAIN ocr_cache
    /\ DOMAIN ocr_cache = {LegacyKey, cache_key_of(PA0, JA), cache_key_of(PA1, JA)}

(***************************************************************************)
(* Properties of deleting a chapter (DeleteSpec).                          *)
(***************************************************************************)
\* key is member followed by "?sourceId=" or "&sourceId=" and anything
IsSourceIdVariant(key, member) ==
    \/ StartsWith(key, member \o <<"?">> \o SOURCE_ID \o <<"=">>)
    \/ StartsWith(key, member \o <<"&">> \o SOURCE_ID \o <<"=">>)

\* the cache keys of the membership rows of a chapter
MembersOf(cc, chapter_key) == {m[2] : m \in {r \in cc : r[1] = chapter_key}}

\* C15: deleting a chapter with delete_data = true removes every row of
\* ocr_cache whose key is the key of a membership row of the chapter or a
\* sourceId variant of one, and removes no other row of ocr_cache and no
\* membership row or page count of any other chapter.
C15_DeleteData ==
    [][(ev'.op = "delete" /\ ev'.status = "data")
       => /\ DOMAIN ocr_cache \ DOMAIN ocr_cache'
                = {k \in DOMAIN ocr_cache :
                     \E m \in MembersOf(chapter_cache, ev'.chapter) :
                        k = m \/ IsSourceIdVariant(k, m)}
          /\ \A k \in DOMAIN ocr_cache' : k \in DOMAIN ocr_cache /\ ocr_cache'[k] = ocr_cache[k]
          /\ {m \in chapter_cache' : m[1] # ev'.chapter}
                = {m \in chapter_cache : m[1] # ev'.chapter}
          /\ \A c \in DOMAIN chapter_pages \ {ev'.chapter} :
                c \in DOMAIN chapter_pages' /\ chapter_pages'[c] = chapter_pages[c]]_vars

\* C16: deleting a chapter with delete_data = false removes all the
\* membership rows of the chapter and its page count, leaves every row of
\* ocr_cache unchanged, and reports 0 cache rows deleted.
C16_DeleteMetadataOnly ==
    [][(ev'.op = "delete" /\ ev'.status = "metadata")
       => /\ ocr_cache' = ocr_cache
          /\ ev'.b = 0
          /\ MembersOf(chapter_cache', ev'.chapter) = {}
          /\ ev'.chapter \notin DOMAIN chapter_pages'
          /\ ev'.a = Cardinality(MembersOf(chapter_cache, ev'.chapter))
                     + Cardinality({ev'.chapter} \cap DOMAIN chapter_pages)]_vars

\* a chapter with a membership row and a page count was deleted with
\* delete_data = false: the row of its page is still in ocr_cache
C16_Witness ==
    /\ ev.op = "delete"
    /\ ev.status = "metadata"
    /\ ev.a = 2
    /\ ev.b = 0
    /\ cache_key_of(PU, JA) \in DOMAIN ocr_cache
    /\ LegacyKeyOf(PU) \in DOMAIN ocr_cache
    /\ MembersOf(chapter_cache, ev.chapter) = {}

(***************************************************************************)
(* Properties of the store when its steps fail (FaultSpec).                *)
(***************************************************************************)
\* C17: a delete of a chapter is atomic whatever fails, a single statement
\* or the commit: either the membership rows of the chapter, its page
\* count and (with delete_data) the rows of its member keys are all gone,
\* or no table has changed.
C17_DeleteAtomic ==
    [][ev'.op = "delete"
       => \/ db' = db
          \/ /\ MembersOf(chapter_cache', ev'.chapter) = {}
             /\ ev'.chapter \notin DOMAIN chapter_pages'
             /\ ev'.status = "data"
                  => \A m \in MembersOf(chapter_cache, ev'.chapter) :
                        m \notin DOMAIN ocr_cache']_vars

\* the steps whose failure ends an operation without a commit
Aborting == {POOL, TRANSACTION, COMMIT}

\* C18: a failure inside a store operation is swallowed and surfaces as the
\* empty or zero result (a delete answers 0 rows, an import answers 0
\* added, an export answers the empty map), and the value returned never
\* reports work that was not committed: the count of an import is the
\* number of rows it added, the counts of a delete are the rows it removed.
C18_FailuresReportNothing ==
    [][/\ ev'.op = "import"
          => /\ ev'.a = Cardinality(DOMAIN ocr_cache' \ DOMAIN ocr_cache)
             /\ ev'.faults \cap Aborting # {} => (ev'.a = 0 /\ db' = db)
       /\ ev'.op = "delete"
          => /\ ev'.b = Cardinality(DOMAIN ocr_cache \ DOMAIN ocr_cache')
             /\ ev'.a = Cardinality(chapter_cache \ chapter_cache')
                        + Cardinality(DOMAIN chapter_pages \ DOMAIN chapter_pages')
             /\ ev'.faults \cap Aborting # {} => (ev'.a = 0 /\ ev'.b = 0 /\ db' = db)
       /\ ev'.op = "export"
          => IF ev'.faults = {} THEN DOMAIN ev'.input = DOMAIN ocr_cache
             ELSE ev'.input = EmptyTable]_vars

(***************************************************************************)
(* Properties of the retry policy (RetrySpec).                             *)
(***************************************************************************)
\* C19: fetch_and_process makes at most 3 attempts; it returns the first
\* success and makes no attempt after it (so a run that fails twice and
\* then succeeds returns the success); when 3 attempts fail it returns the
\* error of the third and makes no fourth attempt.  A call that has
\* returned takes no further step.
C19_Retry ==
    /\ [](call.some
            => /\ call.v.attempts <= MaxAttempts
               /\ call.v.result.some
                    => /\ call.v.attempts >= 1
                       /\ \A j \in 1..(call.v.attempts - 1) : ~call.v.run[j].ok
                       /\ call.v.result.v.ok
                            => call.v.result.v = call.v.run[call.v.attempts]
                       /\ ~call.v.result.v.ok
                            => /\ call.v.attempts = MaxAttempts
                               /\ call.v.result.v = call.v.run[MaxAttempts]
                       /\ call.v.result.v.ok = fetch_and_process(call.v.run).ok
                       /\ call.v.result.v.data = fetch_and_process(call.v.run).data
                       /\ call.v.result.v.error = fetch_and_process(call.v.run).error
                       /\ call.v.attempts = fetch_and_process(call.v.run).attempts
                       /\ call.v.sleeps = fetch_and_process(call.v.run).sleeps)
    /\ [][(call.some /\ call.v.result.some) => call' = call]_vars

\* a call whose first two attempts failed has returned the success of the third
C19_Witness ==
    /\ call.some
    /\ call.v.result.some
    /\ call.v.result.v = OkAttempt(D1)
    /\ call.v.attempts = 3
    /\ ~call.v.run[1].ok
    /\ ~call.v.run[2].ok
    /\ call.v.sleeps = <<1, 2>>

(***************************************************************************)
(* Properties of the cache key (KeySpec).                                  *)
(***************************************************************************)
\* C20 as stated: two URLs that differ only in scheme, in host (and port),
\* or in the presence or value of a sourceId parameter have the same cache
\* key, for every language setting.
C20_SameKey ==
    (call.some /\ call.v.done) => call.v.key_a = call.v.key_b

\* C20: two URLs with scheme http or https that differ only in scheme, in
\* host (and port), or in the presence or value of a sourceId parameter
\* have the same cache key, for every language setting.
C20_SameKeyHttp ==
    (/\ call.some
     /\ call.v.done
     /\ call.v.a.scheme \in SpecialSchemes
     /\ call.v.b.scheme \in SpecialSchemes)
    => call.v.key_a = call.v.key_b

\* http://h/a?sourceId=1&x=1 and https://x:8/a?x=1&sourceId=2 have the key
\* lang/ja/a?x=1
C20_Witness ==
    /\ call.some
    /\ call.v.done
    /\ call.v.a = [scheme |-> HTTP, host |-> <<"h">>]
    /\ call.v.b.scheme = HTTPS
    /\ call.v.sid_a = 1
    /\ call.v.sid_b = 2
    /\ call.v.language = JA
    /\ call.v.key_a = LANG \o <<"/">> \o JA \o <<"/", "a", "?", "x", "=", "1">>
    /\ call.v.key_b = call.v.key_a

(***************************************************************************)
(* Properties of the cache key (NormSpec).                                 *)
(***************************************************************************)
\* the URL of the call parsed: it has a scheme
NormParsed == call.v.prefix # <<>>
\* the URL of the call has a query string that is not empty
NormHasQuery == call.v.query \notin {<<>>, <<"?">>}

\* C21 as stated: for any URL and any value X, the key of url + "&sourceId=X"
\* is the key of url, also for a URL with no query string and for a URL that
\* does not parse.
C21_AppendedSourceId ==
    (call.some /\ call.v.done) => call.v.key_appended = call.v.key

\* C21: for any URL that parses and has a non-empty query string, and any
\* value X without "&", the key of url + "&sourceId=X" is the key of url.
C21_AppendedToQuery ==
    (call.some /\ call.v.done /\ NormParsed /\ NormHasQuery)
    => call.v.key_appended = call.v.key

\* http://h/a?x=1 and http://h/a?x=1&sourceId=a=b both have the key lang/ja/a?x=1
C21_Witness ==
    /\ call.some
    /\ call.v.done
    /\ call.v.url = HTTP \o <<":", "/", "/", "h", "/", "a", "?", "x", "=", "1">>
    /\ call.v.x = <<"a", "=", "b">>
    /\ call.v.language = JA
    /\ call.v.key = LANG \o <<"/">> \o JA \o <<"/", "a", "?", "x", "=", "1">>
    /\ call.v.key_appended = call.v.key

\* C22 as stated: applying the normalizer to a key it produced, with the same
\* language argument, returns that key unchanged.
C22_Idempotent ==
    (call.some /\ call.v.done) => call.v.key_again = call.v.key

\* the URL of the call has the scheme http or https
NormSpecial ==
    \E scheme \in SpecialSchemes : StartsWith(call.v.prefix, scheme \o <<":">>)

\* C22: with no language argument, applying the normalizer to the key it
\* produced for an http or https URL returns that key unchanged.
C22_IdempotentNoLanguage ==
    (call.some /\ call.v.done /\ call.v.language = NoLanguage /\ NormSpecial)
    => call.v.key_again = call.v.key

\* the key /a?x=1 of https://x:8/a?x=1&sourceId=3 is its own key
C22_Witness ==
    /\ call.some
    /\ call.v.done
    /\ call.v.language = NoLanguage
    /\ call.v.url = HTTPS \o <<":", "/", "/", "x", ":", "8", "/", "a", "?", "x", "=", "1", "&">>
                     \o SOURCE_ID \o <<"=", "3">>
    /\ call.v.key = <<"/", "a", "?", "x", "=", "1">>
    /\ call.v.key_again = call.v.key

\* s is n slashes followed by a string that does not start with a slash
SlashesThen(s, n) ==
    /\ \A i \in 1..n : s[i] = "/"
    /\ n < Len(s) => s[n + 1] # "/"

\* C23: for any URL and language L, the key with L is "lang/" + L + "/"
\* followed by the key with no language without its leading slashes; when the
\* key with no language is empty or only a slash it is exactly "lang/" + L + "/".
C23_LanguagePrefix ==
    (call.some /\ call.v.done /\ call.v.language # NoLanguage)
    => /\ \E n \in 0..Len(call.v.key_none) :
            /\ SlashesThen(call.v.key_none, n)
            /\ call.v.key = LANG \o <<"/">> \o call.v.language \o <<"/">>
                             \o Tail_(call.v.key_none, n + 1)
       /\ call.v.key_none \in {<<>>, <<"/">>}
          => call.v.key = LANG \o <<"/">> \o call.v.language \o <<"/">>

\* http://h/ has the key / with no language and lang/ja/ with language ja
C23_Witness ==
    /\ call.some
    /\ call.v.done
    /\ call.v.language = JA
    /\ call.v.url = HTTP \o <<":", "/", "/", "h", "/">>
    /\ call.v.key_none = <<"/">>
    /\ call.v.key = LANG \o <<"/">> \o JA \o <<"/">>

(***************************************************************************)
(* Properties of the startup migration (MigrateSpec).                      *)
(***************************************************************************)
\* the migration-completed marker is set
MarkerSet(md) == LEGACY_JSON_MIGRATED \in DOMAIN md /\ md[LEGACY_JSON_MIGRATED] = "1"

\* every row of table f is in table g, unchanged
Kept(f, g) == \A k \in DOMAIN f : k \in DOMAIN g /\ g[k] = f[k]

\* the marker, once set, stays set
C24_MarkerStays == MarkerSet(metadata) => MarkerSet(metadata')

\* a start sets the marker only when its transaction commits
C24_MarkerWithCommit ==
    (ev'.op = "startup" /\ MarkerSet(metadata') /\ ~MarkerSet(metadata))
    => (call'.v.faults \cap {OPEN, TRANSACTION, METADATA, COMMIT} = {}
        /\ cache_file.some)

\* a start deletes the legacy file only when its transaction commits
C24_FileAfterCommit ==
    (ev'.op = "startup" /\ cache_file.some /\ ~cache_file'.some)
    => call'.v.faults \cap {OPEN, TRANSACTION, COMMIT, REMOVE_FILE} = {}

\* with the marker set a start imports nothing and leaves the file alone
C24_NoImportAfterMarker ==
    (ev'.op = "startup" /\ MarkerSet(metadata))
    => (UNCHANGED <<ocr_cache, chapter_cache, chapter_pages, metadata, cache_file>>
        /\ call'.v.imports = call.v.imports)

\* a start leaves every row already in the store as it is
C24_NoOverwrite ==
    ev'.op = "startup"
    => Kept(ocr_cache, ocr_cache') /\ Kept(chapter_pages, chapter_pages')
       /\ chapter_cache' = chapter_cache

C25_DeleteForgets ==
    ev'.op = "delete"
    => (ev'.chapter \notin DOMAIN active_chapter_jobs' /\ tasks' = tasks)

\* with no entry for the chapter a status query does not answer "processing"
C25_NotProcessing ==
    (ev'.op = "status" /\ ev'.chapter \notin DOMAIN active_chapter_jobs)
    => ev'.status # "processing"

\* a task that was running when a delete was handled goes on to its end
C25_TaskGoesOn ==
    \A t \in Slots :
        (ev.op = "delete" /\ tasks[t].st = "running")
            ~> (ev.op = "job_finish" /\ ev.a = t)

BaseUrls(chapters) == {chapters[i].base_url : i \in 1..Len(chapters)}

\* no step leaves more than 4 chapters being evaluated (none are at the start)
C26_AtMostFour == call'.some => Cardinality(call'.v.inflight) <= 4

\* the answer stored for a chapter is the status of its base URL computed
\* with the chapter's own language or, when it has none, the batch's
C26_ItemStatus ==
    ev'.op = "batch_item"
    => \A i \in call.v.inflight \ call'.v.inflight :
        \E language \in {IF call.v.chapters[i].language.some
                          THEN call.v.chapters[i].language.v
                          ELSE call.v.language.v} :
            /\ ev'.chapter = cache_key_of(call.v.chapters[i].base_url, language)
            /\ \E reply \in {ApiOk(2), ApiErr} :
                 \E r \in {chapter_status(ocr_cache, chapter_cache, chapter_pages,
                                          active_chapter_jobs,
                                          call.v.chapters[i].base_url,
                                          call.v.chapters[i].pages, language,
                                          reply, now)} :
                    /\ call'.v.results[call.v.chapters[i].base_url]
                          = [status |-> r.status, a |-> r.a, b |-> r.b]
                    /\ chapter_cache' = r.cc
                    /\ chapter_pages' = r.cp
            /\ \A url \in DOMAIN call.v.results \ {call.v.chapters[i].base_url} :
                 call'.v.results[url] = call.v.results[url]

\* the map returned has one entry for each base URL of the request, and every
\* chapter has been evaluated
C26_Returned ==
    ev'.op = "batch_status"
    => /\ call.v.evaluated = 1..Len(call.v.chapters)
       /\ ev'.input = call.v.results
       /\ DOMAIN ev'.input = BaseUrls(call.v.chapters)

\* C26: batch chapter status never evaluates more than 4 chapters at the
\* same time, eventually evaluates every chapter of the request, and returns
\* a map with exactly one entry per distinct base URL of the request, each
\* entry being the status computed with that item's language or, when the
\* item has none, the batch-level language.
C26_BatchStatus ==
    /\ [][C26_AtMostFour]_vars
    /\ [][C26_ItemStatus]_vars
    /\ [][C26_Returned]_vars
    /\ (call.some ~> (ev.op = "batch_status" /\ call = None))

\* the longest batch has returned: the chapter asked about in English has no
\* page cached although its Japanese rows are in the store, and the other
\* chapter, asked about with a page list in Japanese, is processed
C26_Witness ==
    /\ ev.op = "batch_status"
    /\ ev.a = MaxChapters
    /\ ev.b = MaxChapters
    /\ DOMAIN ev.input = {ChA, ChB}
    /\ ev.input[ChA] = [status |-> "idle", a |-> 0, b |-> 0]
    /\ ev.input[ChB] = [status |-> "processed", a |-> 1, b |-> 1]
    /\ <<cache_key_of(ChA, JA), cache_key_of(PA0, JA)>> \in chapter_cache

(***************************************************************************)
(* Properties of the geometry of a page (PipeSpec).                        *)
(***************************************************************************)
\* the line of the example: centre (0.5, 0.5), size (0.2, 0.1), unrotated
ExampleLine == <<Some(Geometry(5, 5, 2, 1))>>

\* a box of fractions of the page, each given as a quotient
BoxOf(xn, xd, yn, yd, wn, wd, hn, hd) ==
    BoundingBox(Ratio(xn, xd), Ratio(yn, yd), Ratio(wn, wd), Ratio(hn, hd))

\* the boxes of the lines a finished page returned
ReturnedBoxes ==
    IF call.some /\ call.v.phase = "done"
    THEN {call.v.final_results[i].tight_bounding_box :
            i \in 1..Len(call.v.final_results)}
    ELSE {}

C27_Formula ==
    ev'.op = "chunk"
    => \E i \in {call.v.next} :
        \E m \in {call'.v.merged_lines} :
           /\ m \in auto_merge(call.v.raw_chunks[i].lines)
           /\ Len(call'.v.final_results) = Len(call.v.final_results) + Len(m)
           /\ \A j \in 1..Len(call.v.final_results) :
                call'.v.final_results[j] = call.v.final_results[j]
           /\ \A j \in 1..Len(m) :
                \E r \in {call'.v.final_results[Len(call.v.final_results) + j]} :
                   /\ r.is_merged = m[j].is_merged
                   /\ r.tight_bounding_box.x
                         = Ratio(m[j].tight_bounding_box.x, call.v.image.width)
                   /\ r.tight_bounding_box.width
                         = Ratio(m[j].tight_bounding_box.width, call.v.image.width)
                   /\ r.tight_bounding_box.y
                         = Ratio(m[j].tight_bounding_box.y + (i - 1) * 3000,
                                 call.v.image.height)
                   /\ r.tight_bounding_box.height
                         = Ratio(m[j].tight_bounding_box.height, call.v.image.height)

\* the example line alone in the last strip of a finished page: in the
\* 1000x1000 strip at globalY = 3000 of a 1000x4000 page it yields x = 0.4,
\* y = 0.8625, width = 0.2, height = 0.025; the strip at globalY = 0 of a
\* 1000x2000 page is the whole page, and it yields x = 0.4, y = 0.45,
\* width = 0.2, height = 0.1
C27_Strips ==
    (/\ call'.some
     /\ call'.v.phase = "done"
     /\ call'.v.responses[Len(call'.v.responses)] = ExampleLine)
    => \E last \in {call'.v.final_results[Len(call'.v.final_results)]} :
        /\ call'.v.image.height = 4000
           => /\ [k \in 1..2 |-> <<call'.v.raw_chunks[k].height,
                                     call'.v.raw_chunks[k].global_y>>]
                    = <<(<<3000, 0>>), (<<1000, 3000>>)>>
              /\ last.tight_bounding_box
                    = BoxOf(4, 10, 8625, 10000, 2, 10, 25, 1000)
        /\ call'.v.image.height = 2000
           => /\ [k \in 1..1 |-> <<call'.v.raw_chunks[k].height,
                                     call'.v.raw_chunks[k].global_y>>]
                    = <<(<<2000, 0>>)>>
              /\ last.tight_bounding_box = BoxOf(4, 10, 45, 100, 2, 10, 1, 10)

InUnit(q) == RatioLe(Ratio(0, 1), q) /\ RatioLe(q, Ratio(1, 1))

\* C28: every bounding box that leaves the recognition pipeline has x, y,
\* width and height in [0,1], with x + width <= 1 and y + height <= 1, for
\* every recognizer geometry whose centre and size are fractions in [0,1]
\* of the strip, and its rotation field is absent.
C28_UnitBox ==
    \A box \in ReturnedBoxes :
        /\ InUnit(box.x) /\ InUnit(box.y)
        /\ InUnit(box.width) /\ InUnit(box.height)
        /\ RatioLe(RatioSum(box.x, box.width), Ratio(1, 1))
        /\ RatioLe(RatioSum(box.y, box.height), Ratio(1, 1))
        /\ box.rotation = None

(***************************************************************************)
(* Properties of the status of a chapter with no job (PollSpec).           *)
(***************************************************************************)
\* the key of the i-th page of the list of the status request just served
PageKey(i) == cache_key_of(ev'.pages.v[i], JA)

\* the pages of the list whose key is in the cache, or is followed there by
\* ?sourceId= or &sourceId=
HitPages ==
    {i \in 1..Len(ev'.pages.v) :
        \/ PageKey(i) \in DOMAIN ocr_cache
        \/ \E k \in DOMAIN ocr_cache : IsSourceIdVariant(k, PageKey(i))}

\* the page count stored for a chapter, 0 when there is none
PageCount(cp, chapter_key) ==
    IF chapter_key \in DOMAIN cp THEN cp[chapter_key].page_count ELSE 0

\* C29: chapter status with a non-empty page list and no job in flight
\* counts as cachedCount the pages whose normalized key is in the cache or
\* has a "?sourceId="/"&sourceId=" prefixed variant in the cache; if
\* cachedCount > 0 it persists totalExpected = len(pageList) in the
\* page-count record and adds exactly the hit pages' keys to the chapter
\* membership set; if cachedCount = 0 it persists nothing; in no case does
\* it change a cache row or its access count.
C29_PageListStatus ==
    [][(/\ ev'.op = "status"
        /\ ev'.chapter \notin DOMAIN active_chapter_jobs
        /\ ev'.pages.some
        /\ ev'.pages.v # <<>>)
       => (/\ ev'.a = Cardinality(HitPages)
           /\ ocr_cache' = ocr_cache
           /\ (ev'.a > 0) =>
                (/\ ev'.b = Len(ev'.pages.v)
                 /\ PageCount(chapter_pages', ev'.chapter) = Len(ev'.pages.v)
                 /\ chapter_cache'
                       = chapter_cache
                         \cup {<<ev'.chapter, PageKey(i)>> : i \in HitPages})
           /\ (ev'.a = 0) =>
                (/\ chapter_pages' = chapter_pages
                 /\ chapter_cache' = chapter_cache))]_vars

\* the record of a chapter was read and the page-count API was not called
RecordRead(calls) ==
    /\ Len(calls) >= 2
    /\ calls[2] = "get_chapter_progress"
    /\ \A i \in 1..Len(calls) : calls[i] # "resolve_total_pages"

\* C30: chapter status without a page list and no job in flight takes
\* cachedCount from the size of the chapter's membership set and, when
\* cachedCount > 0, totalExpected from the persisted page-count record if
\* one exists; when the membership set is empty it returns idle with 0/0
\* and neither reads the page-count record nor calls the page-count API.
C30_NoPageListStatus ==
    [][(/\ ev'.op = "status"
        /\ ev'.chapter \notin DOMAIN active_chapter_jobs
        /\ ~ev'.pages.some)
       => (/\ ev'.a = Cardinality(MembersOf(chapter_cache, ev'.chapter))
           /\ (ev'.a > 0 /\ PageCount(chapter_pages, ev'.chapter) > 0) =>
                (/\ ev'.b = chapter_pages[ev'.chapter].page_count
                 /\ RecordRead(ev'.calls))
           /\ (ev'.a = 0) =>
                (/\ ev'.status = "idle"
                 /\ ev'.b = 0
                 /\ ev'.calls = <<"count_chapter_cache">>
                 /\ db' = db))]_vars

\* the status was asked for without a page list after a status with two
\* pages stored the count 2 and one membership row: one of two is cached,
\* and the record was read, not the page-count API
C30_Witness ==
    /\ ev.op = "status"
    /\ ~ev.pages.some
    /\ ev.status = "idle"
    /\ ev.a = 1 /\ ev.b = 2
    /\ ev.calls = <<"count_chapter_cache", "get_chapter_progress">>
    /\ MembersOf(chapter_cache, ev.chapter) = {cache_key_of(PA0, JA)}

\* the page-count API was called
Resolved(calls) == \E i \in 1..Len(calls) : calls[i] = "resolve_total_pages"

\* C31: chapter status calls the page-count API only when cachedCount > 0
\* and totalExpected is still 0; a positive count it answers is stored in
\* the page-count record and used for the classification; a failure or a
\* count of 0 stores nothing, leaves totalExpected = 0 and answers "idle".
C31_Resolve ==
    [][(ev'.op = "status" /\ ev'.chapter \notin DOMAIN active_chapter_jobs)
       => (/\ Resolved(ev'.calls)
              => (/\ ev'.a > 0
                  /\ ~ev'.pages.some
                  /\ PageCount(chapter_pages, ev'.chapter) = 0)
           /\ (Resolved(ev'.calls) /\ call'.v.reply.ok /\ call'.v.reply.count > 0)
              => (/\ ev'.b = call'.v.reply.count
                  /\ PageCount(chapter_pages', ev'.chapter) = call'.v.reply.count
                  /\ ev'.status = IF ev'.a >= call'.v.reply.count
                                  THEN "processed" ELSE "idle")
           /\ (Resolved(ev'.calls)
               /\ (~call'.v.reply.ok \/ call'.v.reply.count = 0))
              => (/\ ev'.b = 0
                  /\ ev'.status = "idle"
                  /\ db' = db))]_vars

\* the API answered 0 pages for a chapter with one membership row and no
\* page count: idle, 1 of 0, and no page count is stored
C31_Witness ==
    /\ ev.op = "status"
    /\ Resolved(ev.calls)
    /\ call = Some([reply |-> ApiOk(0)])
    /\ ev.status = "idle"
    /\ ev.a = 1 /\ ev.b = 0
    /\ ev.chapter \notin DOMAIN chapter_pages

(***************************************************************************)
(* Promotion of the rows of older versions (PageSpec).                     *)
(***************************************************************************)
\* the rows whose key is cache_key followed by ?sourceId= or &sourceId=
LegacyRows(oc, cache_key) == {k \in DOMAIN oc : IsSourceIdVariant(k, cache_key)}

\* a lookup that misses the key and finds a row of an older version answers
\* with the data of that row, does not run the pipeline, writes the entry
\* under the key and leaves the row of the older version with its data
C32_Promotes ==
    (/\ ev'.op = "ocr"
     /\ ev'.page \notin DOMAIN ocr_cache
     /\ LegacyRows(ocr_cache, ev'.page) # {})
    => /\ ev'.status = "ok"
       /\ ~Called(ev'.calls, "fetch_and_process")
       /\ ev'.page \in DOMAIN ocr_cache'
       /\ \E k \in LegacyRows(ocr_cache, ev'.page) :
            /\ ev'.data = from_slice(ocr_cache[k].data)
            /\ ocr_cache'[ev'.page].data = ocr_cache[k].data
            /\ ocr_cache'[ev'.page].context = ocr_cache[k].context
            /\ k \in DOMAIN ocr_cache'
            /\ ocr_cache'[k].data = ocr_cache[k].data
            /\ ocr_cache'[k].context = ocr_cache[k].context

\* a row stays until a delete or a clear
C32_RowsStay ==
    \A k \in DOMAIN ocr_cache :
        k \notin DOMAIN ocr_cache' => ev'.op \in {"delete", "purge"}

\* a lookup of a key that has a row reads that row and nothing else
C32_HitsDirectly ==
    (ev'.op = "ocr" /\ ev'.page \in DOMAIN ocr_cache)
    => /\ ev'.calls[1] = "get_cache_entry"
       /\ ~Called(ev'.calls, "get_cache_entry_sourceid_variant")
       /\ ~Called(ev'.calls, "fetch_and_process")
       /\ ev'.data = from_slice(ocr_cache[ev'.page].data)

\* C32: when single-page lookup misses the normalized key but finds a legacy
\* sourceId-variant row, it returns that row's data without running the
\* pipeline and writes the entry under the current normalized key, so that
\* every later get of the normalized key hits directly (until a delete or
\* clear); the legacy row itself is left in place.
C32_Promotion ==
    [][C32_Promotes]_vars /\ [][C32_RowsStay]_vars /\ [][C32_HitsDirectly]_vars

\* the page was answered from the row an older version wrote, which is
\* still there, and has a row of its own now
C32_Witness ==
    /\ ev.op = "ocr"
    /\ ev.status = "ok"
    /\ ev.page = cache_key_of(PA0, JA)
    /\ Called(ev.calls, "get_cache_entry_sourceid_variant")
    /\ Called(ev.calls, "insert_cache_entry")
    /\ ~Called(ev.calls, "fetch_and_process")
    /\ ev.data = D1
    /\ {ev.page, LegacyKey} \subseteq DOMAIN ocr_cache
    /\ ocr_cache[ev.page].data = ocr_cache[LegacyKey].data

(***************************************************************************)
(* The sleeps of the retry policy (RetrySpec).                             *)
(***************************************************************************)
\* C33: the retry policy sleeps only between failed attempts, attemptNumber
\* seconds after failed attempt 1 (1s) and after failed attempt 2 (2s); when
\* all three attempts fail it has slept exactly twice and returns the last
\* error without a sleep after the third failure.
C33_SleepsBetween ==
    (call.some /\ call.v.result.some)
    => /\ call.v.result.v.ok
          => call.v.sleeps = [i \in 1..(call.v.attempts - 1) |-> i]
       /\ ~call.v.result.v.ok
          => /\ call.v.sleeps = <<1, 2>>
             /\ call.v.result.v.error = call.v.run[3].error

(***************************************************************************)
(* Properties of the strips of a page (TileSpec).                          *)
(***************************************************************************)
RECURSIVE SumHeights(_)
\* the sum of the heights of a list of strips
SumHeights(chunks) ==
    IF chunks = <<>> THEN 0 ELSE Head(chunks).height + SumHeights(Tail(chunks))

\* the strips of a page that has been cut: ceil(H / 3000) of them, the i-th
\* (from 0) at globalY = 3000 * i with height min(3000, H - 3000 * i)
C34_Strips ==
    (call.some /\ call.v.phase \in {"chunks", "done"})
    => \E H \in {call.v.image.height} :
        \E chunks \in {call.v.raw_chunks} :
           /\ Len(chunks) = (H + 2999) \div 3000
           /\ \A k \in 1..Len(chunks) :
                /\ chunks[k].global_y = 3000 * (k - 1)
                /\ chunks[k].height
                      = IF H - 3000 * (k - 1) < 3000 THEN H - 3000 * (k - 1)
                        ELSE 3000
                /\ chunks[k].height \in 1..3000
                /\ k < Len(chunks)
                      => chunks[k + 1].global_y
                           = chunks[k].global_y + chunks[k].height
                /\ chunks[k].full_height = H
           /\ chunks[Len(chunks)].global_y + chunks[Len(chunks)].height = H
           /\ SumHeights(chunks) = H

\* the strips are cut from the top down, one at each step
C34_TopDown ==
    ev'.op = "strip"
    => /\ Len(call'.v.raw_chunks) = Len(call.v.raw_chunks) + 1
       /\ \A k \in 1..Len(call.v.raw_chunks) :
            call'.v.raw_chunks[k] = call.v.raw_chunks[k]
       /\ Len(call'.v.raw_chunks[Len(call'.v.raw_chunks)].lines)
            = Cardinality({j \in 1..Len(call'.v.responses[Len(call'.v.responses)]) :
                             call'.v.responses[Len(call'.v.responses)][j].some})

\* the results of the strips are put one after the other in the order of
\* the strips, and the page is done after the last strip
C34_InOrder ==
    ev'.op = "chunk"
    => /\ ev'.a = call.v.next
       /\ call'.v.next = call.v.next + 1
       /\ SubSeq(call'.v.final_results, 1, Len(call.v.final_results))
            = call.v.final_results
       /\ Len(call'.v.final_results) - Len(call.v.final_results)
            \in {Len(call.v.raw_chunks[call.v.next].lines),
                 IF Len(call.v.raw_chunks[call.v.next].lines) = 2 THEN 1
                 ELSE Len(call.v.raw_chunks[call.v.next].lines)}
       /\ (call'.v.phase = "done") <=> (call.v.next = Len(call.v.raw_chunks))

\* C34: tiling an image of height H > 0 yields ceil(H/3000) strips in
\* top-to-bottom order where strip i has globalY = 3000*i and height
\* min(3000, H - 3000*i): every strip height is in 1..3000, the strips are
\* contiguous and do not overlap, their heights sum to H, and the page
\* result is the concatenation of the strips' results in that order.
C34_Tiling ==
    /\ [][C34_Strips']_vars
    /\ [][C34_TopDown]_vars
    /\ [][C34_InOrder]_vars

\* a page of height 6020 is done: strips of 3000, 3000 and 20 rows, a line
\* found in the first and in the last, none in the second, and the line of
\* the first strip comes first in the result
C34_Witness ==
    /\ call.some
    /\ call.v.phase = "done"
    /\ call.v.image.height = 6020
    /\ [k \in 1..3 |-> call.v.raw_chunks[k].height] = <<3000, 3000, 20>>
    /\ [k \in 1..3 |-> Len(call.v.raw_chunks[k].lines)] = <<1, 0, 1>>
    /\ Len(call.v.final_results) = 2
    /\ call.v.final_results[1].tight_bounding_box.y = Ratio(1350, 6020)
    /\ call.v.final_results[2].tight_bounding_box.y = Ratio(6009, 6020)

(***************************************************************************)
(* Properties of rows whose data does not decode (DecodeSpec).             *)
(***************************************************************************)
\* the rows whose data does not decode
Garbled(oc) == {k \in DOMAIN oc : ~oc[k].data.json}

\* a get of such a row is a hit with no lines, and counts as an access
C35_Get ==
    (ev'.op = "get" /\ ev'.page \in Garbled(ocr_cache))
    => /\ ev'.status = "some"
       /\ ev'.data = <<>>
       /\ ocr_cache'[ev'.page].access_count = ocr_cache[ev'.page].access_count + 1
       /\ ocr_cache'[ev'.page].data = ocr_cache[ev'.page].data

\* a lookup that finds such a row, under the key or as the only row of an
\* older version, answers no lines and does not run the pipeline
C35_Lookup ==
    (/\ ev'.op = "ocr"
     /\ \/ ev'.page \in Garbled(ocr_cache)
        \/ /\ ev'.page \notin DOMAIN ocr_cache
           /\ LegacyRows(ocr_cache, ev'.page) # {}
           /\ LegacyRows(ocr_cache, ev'.page) \subseteq Garbled(ocr_cache))
    => /\ ev'.status = "ok"
       /\ ev'.data = <<>>
       /\ ~Called(ev'.calls, "fetch_and_process")

\* an export holds every row, such a row with no lines
C35_Export ==
    ev'.op = "export"
    => /\ DOMAIN ev'.input = DOMAIN ocr_cache
       /\ \A k \in Garbled(ocr_cache) :
            ev'.input[k] = CacheEntry(ocr_cache[k].context, <<>>)

\* C35: a cache row whose stored data cannot be decoded is read by get,
\* sourceId-variant lookup and exportAll as an entry with an empty line
\* list rather than as an error or a miss; the read still counts as a hit
\* (get bumps the access count).
C35_DecodedEmpty ==
    [][C35_Get]_vars /\ [][C35_Lookup]_vars /\ [][C35_Export]_vars

\* the row of PA1 does not decode; it was got as a hit with no lines, and
\* its access count went from 1 to 2
C35_Witness ==
    /\ ev.op = "get"
    /\ ev.page = cache_key_of(PA1, JA)
    /\ ev.status = "some"
    /\ ev.data = <<>>
    /\ ev.page \in Garbled(ocr_cache)
    /\ ocr_cache[ev.page].access_count = 2

(***************************************************************************)
(* Properties of a startup migration that fails (MigrateSpec).             *)
(***************************************************************************)
\* the start finds a legacy file to migrate and fails to open or decode it,
\* to begin the transaction, or to commit it
FailedMigration ==
    /\ ev'.op = "startup"
    /\ cache_file.some
    /\ ~MarkerSet(metadata)
    /\ \/ ~cache_file.v.json
       \/ call'.v.faults \cap {OPEN, TRANSACTION, COMMIT} # {}

\* such a start goes on with an empty registry, and leaves the marker unset,
\* the tables as they were and the file in place
C36_FailureLeavesAll ==
    FailedMigration
    => /\ ~MarkerSet(metadata')
       /\ UNCHANGED <<ocr_cache, chapter_cache, chapter_pages, metadata, cache_file>>
       /\ active_chapter_jobs' = EmptyTable

\* the start that sets the marker leaves every key of the legacy cache map
\* in the store
C36_MarkerWithRows ==
    (ev'.op = "startup" /\ ~MarkerSet(metadata) /\ MarkerSet(metadata'))
    => \A k \in DOMAIN cache_file.v.cache : k \in DOMAIN ocr_cache'

\* C36: if the startup migration fails at any step (legacy file unreadable
\* or undecodable, transaction cannot start, commit fails), startup
\* continues normally, the marker stays unset, no legacy row is left
\* half-imported and the legacy file is left in place for the next start;
\* conversely, when the marker is set every key of the legacy cache map is
\* present in the store.
C36_FailedMigration ==
    [][C36_FailureLeavesAll]_vars /\ [][C36_MarkerWithRows]_vars

(***************************************************************************)
(* Properties of clear (ClearSpec).                                        *)
(***************************************************************************)
\* a clear empties the three tables and leaves the marker, the legacy file,
\* the registry and the tasks as they are
C37_EmptiesTables ==
    ev'.op = "purge"
    => /\ ocr_cache' = EmptyTable
       /\ chapter_cache' = {}
       /\ chapter_pages' = EmptyTable
       /\ \A k \in ClearKeys : ~has_cache_entry(ocr_cache', k)
       /\ UNCHANGED <<metadata, cache_file, active_chapter_jobs, tasks>>

\* a get that follows a clear finds nothing
C37_GetMisses ==
    (ev.op = "purge" /\ ev'.op = "get")
    => ev'.status = "none" /\ ocr_cache' = EmptyTable

\* a status that follows a clear, of a chapter that has no job in the
\* registry, is idle with no cached page
C37_StatusIdle ==
    (ev.op = "purge" /\ ev'.op = "status"
        /\ ev'.chapter \notin DOMAIN active_chapter_jobs)
    => ev'.status = "idle" /\ ev'.a = 0 /\ chapter_cache' = {}

C38_AppendOnly ==
    ev'.op \notin {"delete", "purge"} => chapter_cache \subseteq chapter_cache'

\* a delete removes membership rows of its chapter only
C38_DeleteOwn ==
    ev'.op = "delete"
    => \A r \in chapter_cache \ chapter_cache' : r[1] = ev'.chapter

\* a lookup for a chapter of a page that is a member of it already, and a
\* status whose page list is made of members, leave the table as it is
C38_Duplicate ==
    /\ (ev'.op = "ocr" /\ <<ev'.chapter, ev'.page>> \in chapter_cache)
       => chapter_cache' = chapter_cache
    /\ (ev'.op = "status" /\ ev'.pages.some
          /\ \A i \in 1..Len(ev'.pages.v) :
                <<ev'.chapter, cache_key_of(ev'.pages.v[i], JA)>> \in chapter_cache)
       => /\ chapter_cache' = chapter_cache
          /\ count_chapter_cache(chapter_cache', ev'.chapter)
               = count_chapter_cache(chapter_cache, ev'.chapter)

\* a status that names one cached page twice adds at most one row
C38_OneRow ==
    (ev'.op = "status" /\ ev'.pages = Some(<<PA0, PA0s>>) /\ ev'.status # "processing")
    => Cardinality(chapter_cache' \ chapter_cache) <= 1

\* C38: the chapter membership set is append-only with duplicates ignored:
\* inserting a (chapterKey, cacheKey) pair that is already present changes
\* nothing (count unchanged), and a membership row is removed only by
\* deleteChapter of its chapter or by clear, never by put, get, import or
\* status queries.
C38_Membership ==
    /\ [][C38_AppendOnly]_vars
    /\ [][C38_DeleteOwn]_vars
    /\ [][C38_Duplicate]_vars
    /\ [][C38_OneRow]_vars

\* page PA0 is cached and a member of both chapters; the status of ChA was
\* asked with a list that names the page twice, and ChA has one row
C38_Witness ==
    /\ ev.op = "status"
    /\ ev.pages = Some(<<PA0, PA0s>>)
    /\ cache_key_of(PA0, JA) \in DOMAIN ocr_cache
    /\ chapter_cache = {<<cache_key_of(ChA, JA), cache_key_of(PA0, JA)>>,
                        <<cache_key_of(ChB, JA), cache_key_of(PA0, JA)>>}

(***************************************************************************)
(* Membership rows and the rows they refer to (MemberSpec).                *)
(***************************************************************************)
\* the page of the membership row is cached, under its key or under a
\* sourceId variant of it
RefersToCached(oc, row) ==
    \/ row[2] \in DOMAIN oc
    \/ \E k \in DOMAIN oc : IsSourceIdVariant(k, row[2])

\* C39: in every reachable state every chapter membership row
\* (chapterKey, cacheKey) refers to a page that is cached: a cache row
\* exists whose key is cacheKey or a sourceId variant of it; this holds
\* across single-page lookups, status backfill, deleteChapter of other
\* chapters sharing a page, and import.
C39_MembersAreCached ==
    \A row \in chapter_cache : RefersToCached(ocr_cache, row)

(***************************************************************************)
(* Properties of GoogleDriveBackend::push (SyncSpec).                      *)
(***************************************************************************)
\* a push whose etag differs from the checksum of the file found returns
\* Conflict with that checksum and uploads nothing
C40_Conflict ==
    (ev'.op = "push" /\ ev'.input.etag.some /\ ev'.input.existing_file.some
        /\ ev'.input.etag.v # ev'.input.existing_file.v.current_etag)
    => /\ ev'.status = "conflict"
       /\ ev'.input.remote_etag = Some(ev'.input.existing_file.v.current_etag)
       /\ UNCHANGED call

\* the upload of a push whose etag matched replaces the content it checked
C40_NoLostUpdate ==
    (ev'.op = "upload" /\ ev'.status = "success"
        /\ ev'.input.existing_file.some /\ ev'.input.etag.some
        /\ ev'.input.etag.v = ev'.input.existing_file.v.current_etag)
    => ev'.input.remote_etag = ev'.input.etag

\* C40: GoogleDriveBackend::push with an expected etag that differs from the
\* remote sync file's current checksum returns Conflict carrying the remote
\* etag and does not modify the remote file; a push whose expected etag
\* matched never overwrites a remote file that another device changed
\* between the etag check and the upload.
C40_Push == [][C40_Conflict]_vars /\ [][C40_NoLostUpdate]_vars
====
